---- MODULE Spec2Model ----
(***************************************************************************)
(* Verification model of the One_Mai admin console.                        *)
(*                                                                         *)
(* The console is a React single-page application.  Parts of it are        *)
(* modelled, each with its own group of variables and its own              *)
(* specification; a specification keeps the other groups at their idle     *)
(* values.                                                                 *)
(*                                                                         *)
(*   SpecPager     the page-number renderer (DataTable.getPageNumbers and  *)
(*                 the copy in Groups), a pure function applied to inputs  *)
(*                 drawn by Init.                                          *)
(*   Spec          session storage, the router and the transport layer:    *)
(*                 apiFetch and the pages' requests.                       *)
(*   SpecList      one mounted list page (Transactions, PayoutRequests,    *)
(*                 Groups, Users): its React state, its effects and the    *)
(*                 requests they have in flight.                           *)
(*   SpecDebounce  the search box against a clock: the 500 ms debounce     *)
(*                 effect of the list pages and DataTable.handleSearch.    *)
(*   SpecPayout    PayoutRequests: the confirmation modal, the PATCH and   *)
(*                 the list it writes back.                                *)
(*   SpecSession   the stored session seen from two tabs: login, the       *)
(*                 three ways a session is destroyed, and what the pages   *)
(*                 resolve from the stored item.                           *)
(*   SpecHeaders   the request apiFetch builds from the caller's options   *)
(*                 and the stored session.                                 *)
(*   SpecInactivity  one tab against a clock: the inactivity timer of      *)
(*                 useInactivityLogout, activity events, route changes     *)
(*                 and login.                                              *)
(*   SpecSidebar   AppSidebar: the navigation items it renders for the     *)
(*                 signed-in role.                                         *)
(*   SpecHandlers  the handlers of Support, Resources and CreateAdmin that *)
(*                 send a request and patch or refresh the list.           *)
(*   SpecForms     the client-side checks of the create-admin, approve-    *)
(*                 affiliate and login forms, applied to inputs drawn by   *)
(*                 Init.                                                   *)
(***************************************************************************)
EXTENDS Integers, Sequences, FiniteSets, TLC

VARIABLES
    \* ---- page-number renderer ----
    pgTotal,      \* totalPages handed to the renderer
    pgCurrent,    \* currentPage handed to the renderer
    pgWhich,      \* which copy rendered last: "none", "DataTable", "Groups"
    pgOut         \* the list the renderer returned

VARIABLES
    \* ---- the search box against the clock ----
    dbHost,         \* what owns the search box: "Groups", "PayoutRequests" or "DataTable"
    dbNow,          \* the clock, in units of 100 ms
    dbSearchQuery,  \* searchQuery: the text in the search box
    dbTimer,        \* the pending setTimeout of the debounce effect, or NoTimer
    dbDebounced,    \* debouncedSearch
    dbPage,         \* page
    dbHasData,      \* data # null: some response has been stored
    dbLoading,      \* loading (for the DataTable: its loading prop)
    dbInflight,     \* whether the latest request is still in flight
    dbIssued,       \* the calls of apiFetch so far: time, page, search, cause
    dbKeys,         \* the times of the keystrokes so far
    dbOnSearch,     \* DataTable: whether the parent supplied onSearch
    dbCalls         \* DataTable: the calls of onSearch so far: time, query

VARIABLES
    \* ---- one mounted list page ----
    lp              \* the page component, a record (see Fresh)

VARIABLES
    \* ---- session storage, router and transport ----
    localStore,     \* localStorage["admin_auth"]
    sessionStore,   \* sessionStorage["admin_auth"]
    pathname,       \* window.location.pathname, as its sequence of segments
    locationSearch, \* window.location.search
    navFrom,        \* the router's location.state.from, or NoFrom
    reqs,           \* the requests in flight
    nextCall,       \* the number the next request gets
    last,           \* the latest request that settled and what its caller got
    wanted          \* the protected path last asked for without a token, or NoFrom

VARIABLES
    \* ---- the stored session seen from two tabs ----
    seLocal,        \* localStorage["admin_auth"], shared by the tabs
    seTab,          \* sessionStorage["admin_auth"] of each tab
    seAt,           \* what each tab shows: "form" (Login), "app", "notfound"
    seMine,         \* the session each tab created at its last login, or Absent
    seLogins,       \* the logins so far
    seView,         \* the latest render of a page
    seLast          \* the latest operation on the stored session

VARIABLES
    \* ---- PayoutRequests and its confirmation modal ----
    po              \* the page component and the server's collection

VARIABLES
    \* ---- the request apiFetch builds ----
    hd              \* the caller's init, the stored items and the config passed to fetch

VARIABLES
    \* ---- the inactivity timer ----
    ia              \* the tab: clock, location, stored items, pending timeouts, timeoutRef

VARIABLES
    \* ---- AppSidebar ----
    sb              \* the session's role, the sidebar's state and the items it shows

VARIABLES
    \* ---- Support, Resources, CreateAdmin: requests sent by handlers ----
    mu              \* the page component and the requests its handlers have in flight

VARIABLES
    \* ---- the forms and their client-side checks ----
    fm              \* a filled-in form and what submitting it did

pgVars == <<pgTotal, pgCurrent, pgWhich, pgOut>>

dbVars == <<dbHost, dbNow, dbSearchQuery, dbTimer, dbDebounced, dbPage, dbHasData,
            dbLoading, dbInflight, dbIssued, dbKeys, dbOnSearch, dbCalls>>

appVars == <<localStore, sessionStore, pathname, locationSearch, navFrom, reqs,
             nextCall, last, wanted>>

seVars == <<seLocal, seTab, seAt, seMine, seLogins, seView, seLast>>

vars == <<pgVars, dbVars, lp, appVars, seVars, po, hd, ia, sb, mu, fm>>

(***************************************************************************)
(* Bounds of the model.                                                    *)
(***************************************************************************)
MaxTotalPages == 20

\* the search-box clock stops here (units of 100 ms)
MaxTime == 10

\* keystrokes and page clicks in one run of the search-box model
MaxKeys == 3

MaxClicks == 1

\* pages of the collection in the search-box model
MaxPage == 2

\* requests one list page issues in a run of the list model
MaxReqs == 5

\* requests issued in a run of the router and transport model
MaxCalls == 3

\* logins in a run of the two-tab model
MaxLogins == 2

\* the header entries a caller of apiFetch supplies
MaxHeaders == 2

\* the clock of the inactivity model, in units of 10 minutes
MaxClock == 7

\* the timeouts the inactivity model sets in a run
MaxTimers == 6

\* the requests the handlers of a page have in flight
MaxInflight == 1

\* the characters of an email address typed into the create-admin form
MaxEmail == 5

\* the characters typed into the percentage field
MaxPercent == 3

(***************************************************************************)
(* Small helpers.                                                          *)
(***************************************************************************)
Max(a, b) == IF a >= b THEN a ELSE b

Min(a, b) == IF a <= b THEN a ELSE b

\* the numbers lo..hi as a sequence, in increasing order (the for loops)
Range(lo, hi) == [i \in 1..Max(0, hi - lo + 1) |-> lo + i - 1]

(***************************************************************************)
(* The page-number renderer.  An entry is a page number (>= 1) or the      *)
(* ellipsis "...", written Ellipsis here so that a list stays a sequence   *)
(* of integers.                                                            *)
(***************************************************************************)
Ellipsis == 0

maxVisible == 7

\* a renderer that opens the window one page further to the right
getPageNumbersWide(currentPage, totalPages) ==
    IF totalPages <= maxVisible
    THEN Range(1, totalPages)
    ELSE <<1>>
         \o (IF currentPage > 3 THEN <<Ellipsis>> ELSE <<>>)
         \o Range(Max(2, currentPage - 1), Min(totalPages - 1, currentPage + 2))
         \o (IF currentPage < totalPages - 2 THEN <<Ellipsis>> ELSE <<>>)
         \o <<totalPages>>

\* a renderer whose small-collection threshold is off by one
getPageNumbersThreshold(currentPage, totalPages) ==
    IF totalPages < maxVisible
    THEN Range(1, totalPages)
    ELSE <<1>>
         \o (IF currentPage > 3 THEN <<Ellipsis>> ELSE <<>>)
         \o Range(Max(2, currentPage - 1), Min(totalPages - 1, currentPage + 1))
         \o (IF currentPage < totalPages - 2 THEN <<Ellipsis>> ELSE <<>>)
         \o <<totalPages>>

\* a renderer that draws the leading ellipsis one page too early
getPageNumbersEarly(currentPage, totalPages) ==
    IF totalPages <= maxVisible
    THEN Range(1, totalPages)
    ELSE <<1>>
         \o (IF currentPage >= 3 THEN <<Ellipsis>> ELSE <<>>)
         \o Range(Max(2, currentPage - 1), Min(totalPages - 1, currentPage + 1))
         \o (IF currentPage < totalPages - 2 THEN <<Ellipsis>> ELSE <<>>)
         \o <<totalPages>>

\* a renderer that shows no neighbour after the current page
getPageNumbersNarrow(currentPage, totalPages) ==
    IF totalPages <= maxVisible
    THEN Range(1, totalPages)
    ELSE <<1>>
         \o (IF currentPage > 3 THEN <<Ellipsis>> ELSE <<>>)
         \o Range(Max(2, currentPage - 1), Min(totalPages - 1, currentPage))
         \o (IF currentPage < totalPages - 2 THEN <<Ellipsis>> ELSE <<>>)
         \o <<totalPages>>

\* DataTable.getPageNumbers
getPageNumbers(currentPage, totalPages) ==
    IF totalPages <= maxVisible
    THEN Range(1, totalPages)
    ELSE <<1>>
         \o (IF currentPage > 3 THEN <<Ellipsis>> ELSE <<>>)
         \o Range(Max(2, currentPage - 1), Min(totalPages - 1, currentPage + 1))
         \o (IF currentPage < totalPages - 2 THEN <<Ellipsis>> ELSE <<>>)
         \o <<totalPages>>

\* Groups.pageNumbers, the same algorithm written out again in the page
pageNumbers(currentPage, totalPages) ==
    IF totalPages <= maxVisible
    THEN Range(1, totalPages)
    ELSE <<1>>
         \o (IF currentPage > 3 THEN <<Ellipsis>> ELSE <<>>)
         \o Range(Max(2, currentPage - 1), Min(totalPages - 1, currentPage + 1))
         \o (IF currentPage < totalPages - 2 THEN <<Ellipsis>> ELSE <<>>)
         \o <<totalPages>>

\* the page numbers among the entries of a rendered list
PagesOf(out) == {out[i] : i \in {j \in 1..Len(out) : out[j] # Ellipsis}}

PgIdle ==
    /\ pgTotal = 0
    /\ pgCurrent = 1
    /\ pgWhich = "none"
    /\ pgOut = <<>>

\* the props: any page count up to the bound, and any current page, the
\* out-of-range ones included (the component does not validate its props)
PgInit ==
    /\ pgTotal \in 0..MaxTotalPages
    /\ pgCurrent \in 0..(MaxTotalPages + 1)
    /\ pgWhich = "none"
    /\ pgOut = <<>>

\* DataTable renders its pagination row
RenderDataTable ==
    /\ pgWhich' = "DataTable"
    /\ pgOut' = getPageNumbers(pgCurrent, pgTotal)
    /\ UNCHANGED <<pgTotal, pgCurrent>>

\* Groups renders its own pagination row
RenderGroups ==
    /\ pgWhich' = "Groups"
    /\ pgOut' = pageNumbers(pgCurrent, pgTotal)
    /\ UNCHANGED <<pgTotal, pgCurrent>>

\* the parent re-renders the table with another current page
PgSetPage ==
    /\ \E p \in 0..(MaxTotalPages + 1) :
          /\ p # pgCurrent
          /\ pgCurrent' = p
    /\ pgWhich' = "none"
    /\ pgOut' = <<>>
    /\ UNCHANGED pgTotal

(***************************************************************************)
(* The search box against the clock.                                       *)
(*                                                                         *)
(* Groups and PayoutRequests keep searchQuery and debouncedSearch and run  *)
(* three effects: the debounce effect (deps searchQuery) arms a 500 ms     *)
(* timer and clears the previous one, the reset effect (deps               *)
(* debouncedSearch and the filters) sets page to 1, and the fetch effect   *)
(* (deps page, debouncedSearch and the filters) aborts the request of its  *)
(* previous run and issues a new one.  The DataTable owns a search box of  *)
(* its own, handled by handleSearch.                                       *)
(*                                                                         *)
(* Time is counted in units of 100 ms.  A timer fires when it is due:      *)
(* the clock does not pass a due timer.                                    *)
(***************************************************************************)
DebounceDelay == 5

NoTimer == [due |-> -1, value |-> ""]

Queries == {"", "s", "sa"}

DbHosts == {"Groups", "PayoutRequests"}

\* one call of apiFetch by the fetch effect
Request(t, page, search, cause) ==
    [t |-> t, page |-> page, search |-> search, cause |-> cause]

DbIdle ==
    /\ dbHost = "none"
    /\ dbNow = 0
    /\ dbSearchQuery = ""
    /\ dbTimer = NoTimer
    /\ dbDebounced = ""
    /\ dbPage = 1
    /\ dbHasData = FALSE
    /\ dbLoading = FALSE
    /\ dbInflight = FALSE
    /\ dbIssued = <<>>
    /\ dbKeys = <<>>
    /\ dbOnSearch = FALSE
    /\ dbCalls = <<>>

\* A list page just mounted with a token (and, for PayoutRequests, a role
\* that can view): the debounce effect has armed its first timer, the reset
\* effect has set page to 1 again, the fetch effect has issued the first
\* request.  Or a DataTable just mounted by some parent, with or without
\* onSearch.
DbInit ==
    /\ dbHost \in DbHosts \cup {"DataTable"}
    /\ dbNow = 0
    /\ dbSearchQuery = ""
    /\ dbDebounced = ""
    /\ dbPage = 1
    /\ dbHasData = FALSE
    /\ dbKeys = <<>>
    /\ dbCalls = <<>>
    /\ IF dbHost \in DbHosts
       THEN /\ dbTimer = [due |-> DebounceDelay, value |-> ""]
            /\ dbLoading = TRUE
            /\ dbInflight = TRUE
            /\ dbIssued = <<Request(0, 1, "", "mount")>>
            /\ dbOnSearch = FALSE
       ELSE /\ dbTimer = NoTimer
            /\ dbLoading \in BOOLEAN
            /\ dbInflight = FALSE
            /\ dbIssued = <<>>
            /\ dbOnSearch \in BOOLEAN

\* One run of the fetch effect while `inflight` says whether the request of
\* its previous run is unsettled.  The cleanup aborts that request; its
\* promise chain then ends in finally(() => setLoading(false)), which runs
\* after the setLoading(true) of the new run.  The result is the value of
\* loading once the step is over.
LoadingAfterFetch(inflight) == ~inflight

\* the debounce effect: clearTimeout of the previous run, then setTimeout
DebounceEffect(q) == [due |-> dbNow + DebounceDelay, value |-> q]

\* the user changes the text of the page's search box
DbKeystroke ==
    /\ dbHost \in DbHosts
    /\ Len(dbKeys) < MaxKeys
    /\ \E q \in Queries :
          /\ q # dbSearchQuery
          /\ dbSearchQuery' = q
          /\ dbTimer' = DebounceEffect(q)
    /\ dbKeys' = Append(dbKeys, dbNow)
    /\ UNCHANGED <<dbHost, dbNow, dbDebounced, dbPage, dbHasData, dbLoading,
                   dbInflight, dbIssued, dbOnSearch, dbCalls>>

\* The timer fires: setDebouncedSearch(searchQuery).  When the value is new,
\* the reset effect calls setPage(1) and the fetch effect, in the same
\* commit, issues a request with the page of that render; when that page was
\* not 1 the next render runs the fetch effect once more, aborting the
\* request just issued.
DbTimerFire ==
    /\ dbTimer # NoTimer
    /\ dbTimer.due = dbNow
    /\ dbTimer' = NoTimer
    /\ dbDebounced' = dbTimer.value
    /\ IF dbTimer.value = dbDebounced
       THEN UNCHANGED <<dbPage, dbLoading, dbInflight, dbIssued>>
       ELSE /\ dbPage' = 1
            /\ dbInflight' = TRUE
            /\ IF dbPage = 1
               THEN /\ dbIssued' = Append(dbIssued,
                                     Request(dbNow, 1, dbTimer.value, "timer"))
                    /\ dbLoading' = LoadingAfterFetch(dbInflight)
               ELSE /\ dbIssued' = dbIssued \o
                                     << Request(dbNow, dbPage, dbTimer.value, "timer"),
                                        Request(dbNow, 1, dbTimer.value, "timer") >>
                    /\ dbLoading' = LoadingAfterFetch(TRUE)
    /\ UNCHANGED <<dbHost, dbNow, dbSearchQuery, dbHasData, dbKeys, dbOnSearch, dbCalls>>

\* the user clicks a page button (the buttons are disabled while loading,
\* and only the pages of the loaded collection have one)
DbClick ==
    /\ dbHost \in DbHosts
    /\ dbHasData
    /\ ~dbLoading
    /\ Cardinality({i \in DOMAIN dbIssued : dbIssued[i].cause = "click"}) < MaxClicks
    /\ \E p \in 1..MaxPage :
          /\ p # dbPage
          /\ dbPage' = p
          /\ dbIssued' = Append(dbIssued, Request(dbNow, p, dbDebounced, "click"))
    /\ dbLoading' = LoadingAfterFetch(dbInflight)
    /\ dbInflight' = TRUE
    /\ UNCHANGED <<dbHost, dbNow, dbSearchQuery, dbTimer, dbDebounced, dbHasData,
                   dbKeys, dbOnSearch, dbCalls>>

\* the request in flight settles: setData on success, finally setLoading(false)
DbRespond ==
    /\ dbHost \in DbHosts
    /\ dbInflight
    /\ dbInflight' = FALSE
    /\ dbLoading' = FALSE
    /\ \E ok \in BOOLEAN : dbHasData' = (dbHasData \/ ok)
    /\ UNCHANGED <<dbHost, dbNow, dbSearchQuery, dbTimer, dbDebounced, dbPage,
                   dbIssued, dbKeys, dbOnSearch, dbCalls>>

\* 100 ms pass
DbTick ==
    /\ dbHost # "none"
    /\ dbNow < MaxTime
    /\ dbTimer = NoTimer \/ dbTimer.due > dbNow
    /\ dbNow' = dbNow + 1
    /\ UNCHANGED <<dbHost, dbSearchQuery, dbTimer, dbDebounced, dbPage, dbHasData,
                   dbLoading, dbInflight, dbIssued, dbKeys, dbOnSearch, dbCalls>>

\* DataTable.handleSearch after setSearchQuery(query): the calls of onSearch
handleSearch(query) ==
    IF dbOnSearch
    THEN Append(dbCalls, [t |-> dbNow, query |-> query])
    ELSE dbCalls

\* the user changes the text of the DataTable's search box (the Input is
\* disabled while the loading prop is set)
TblKeystroke ==
    /\ dbHost = "DataTable"
    /\ ~dbLoading
    /\ Len(dbKeys) < MaxKeys
    /\ \E q \in Queries :
          /\ q # dbSearchQuery
          /\ dbSearchQuery' = q
          /\ dbCalls' = handleSearch(q)
    /\ dbKeys' = Append(dbKeys, dbNow)
    /\ UNCHANGED <<dbHost, dbNow, dbTimer, dbDebounced, dbPage, dbHasData, dbLoading,
                   dbInflight, dbIssued, dbOnSearch>>

\* the parent re-renders the DataTable with another loading prop
TblSetLoading ==
    /\ dbHost = "DataTable"
    /\ dbLoading' = ~dbLoading
    /\ UNCHANGED <<dbHost, dbNow, dbSearchQuery, dbTimer, dbDebounced, dbPage, dbHasData,
                   dbInflight, dbIssued, dbKeys, dbOnSearch, dbCalls>>

(***************************************************************************)
(* One mounted list page.                                                  *)
(*                                                                         *)
(* lp is the page component: its useState values, the URL search           *)
(* parameters it reads (Users), the requests its effects have in flight    *)
(* and the dependency values its effects last ran with.  The page is       *)
(* mounted with a token and a role that may view it.  A response carries   *)
(* "ok" (2xx) or not; the 401/403 handling of apiFetch belongs to Spec.    *)
(*                                                                         *)
(*   Transactions    one fetch effect, deps page and the filters; its      *)
(*                   cleanup aborts the request.                           *)
(*   PayoutRequests, Groups                                                *)
(*                   debounce effect, reset-page effect, fetch effect      *)
(*                   with an aborting cleanup.                             *)
(*   Users           the server-search page: URL-sync effect, debounce     *)
(*                   effect, URL-update effect, and an effect that calls   *)
(*                   fetchUsers and drops the cleanup it returns.          *)
(***************************************************************************)
EffectDriven == {"Transactions", "PayoutRequests", "Groups"}

Debounced == {"PayoutRequests", "Groups", "Users"}

ListKinds == EffectDriven \cup {"Users"}

Filters == {"all", "pending"}

ListQueries == {"", "s"}

NoData == [req |-> 0, currentPage |-> 0, totalPages |-> 0]

\* the dependency values of a render
Deps(st) ==
    [page |-> st.page, filter |-> st.filter, searchQuery |-> st.searchQuery,
     debounced |-> st.debounced, url |-> st.url]

\* const currentPage = data?.currentPage ?? page
CurrentPage(st) == IF st.data = NoData THEN st.page ELSE st.data.currentPage

\* const totalPages = data?.totalPages ?? 1
TotalPages(st) == IF st.data = NoData THEN 1 ELSE st.data.totalPages

\* a request as the fetch effect (or fetchUsers) issues it; closurePage is
\* the value of page in the render whose closure handles the response
NewRequest(st) ==
    [id |-> st.nextId, page |-> st.page, search |-> st.debounced,
     filter |-> st.filter, closurePage |-> st.page, phase |-> "sent", ok |-> TRUE]

\* what lp.superseded keeps of a request that was unsettled when a later run
\* of the fetch effect (or the unmount) replaced it
Replaced(r) == [id |-> r.id, page |-> r.page]

\* The promise chains of the requests a cleanup aborted, run to their end:
\* fetch (or the body read) rejects with an AbortError, catch leaves err
\* alone for it, finally calls setLoading(false).  A request aborted while
\* the body of a non-2xx response is read is different: the inner try/catch
\* swallows the AbortError and the chain throws new Error(m), which catch
\* stores in err.
AbortSettle(st, olds) ==
    IF olds = {}
    THEN st
    ELSE [st EXCEPT
            !.loading = FALSE,
            !.err = IF \E r \in olds : r.phase = "body" /\ ~r.ok
                    THEN "failed" ELSE @]

\* a fetch effect whose cleanup is lost: the request it replaces stays in
\* flight
FetchEffectNoAbort(st) ==
    [st EXCEPT
        !.loading = TRUE,
        !.err = "",
        !.reqs = @ \cup {NewRequest(st)},
        !.superseded = @ \cup {Replaced(r) : r \in st.reqs},
        !.nextId = @ + 1]

\* The fetch effect of Transactions, PayoutRequests and Groups: the cleanup
\* of the previous run aborts its request, then setLoading(true),
\* setErr(null), apiFetch(url, {signal}); the aborted chain settles after.
FetchEffect(st) ==
    AbortSettle(
        [st EXCEPT
            !.loading = TRUE,
            !.err = "",
            !.reqs = {NewRequest(st)},
            !.superseded = @ \cup {Replaced(r) : r \in st.reqs},
            !.nextId = @ + 1],
        st.reqs)

\* fetchUsers(page, debouncedSearch) called from the Users effect; the
\* function returns () => controller.abort(), the effect does not return it
FetchUsers(st) ==
    [st EXCEPT
        !.loading = TRUE,
        !.err = "",
        !.reqs = @ \cup {NewRequest(st)},
        !.superseded = @ \cup {Replaced(r) : r \in st.reqs},
        !.nextId = @ + 1]

\* One commit: the effects whose dependencies changed since the last commit
\* run in source order against the values of this render; their setState
\* calls take effect together afterwards.
Pass(st) ==
    LET chQ == st.first \/ st.searchQuery # st.seen.searchQuery
        chD == st.first \/ st.debounced # st.seen.debounced
        chF == st.first \/ st.filter # st.seen.filter
        chP == st.first \/ st.page # st.seen.page
        chU == st.first \/ st.url # st.seen.url
        base == [st EXCEPT !.seen = Deps(st), !.first = FALSE]
    IN
    IF st.kind = "Transactions"
    THEN IF chP \/ chF THEN FetchEffect(base) ELSE base
    ELSE IF st.kind \in {"PayoutRequests", "Groups"}
    THEN LET s1 == IF chQ THEN [base EXCEPT !.timer = TRUE] ELSE base
             s2 == IF chP \/ chD \/ chF THEN FetchEffect(s1) ELSE s1
         IN IF chD \/ chF THEN [s2 EXCEPT !.page = 1] ELSE s2
    ELSE \* Users
         LET \* sync state with URL
             s1 == IF chU
                   THEN [base EXCEPT !.page = st.url.page,
                                     !.searchQuery = st.url.search]
                   ELSE base
             \* debounce search query
             s2 == IF chQ THEN [s1 EXCEPT !.timer = TRUE] ELSE s1
             \* update URL when debounced search changes
             s3 == IF chD /\ st.debounced # st.url.search
                   THEN [s2 EXCEPT !.url = [page |-> 1, search |-> st.debounced],
                                   !.page = 1]
                   ELSE s2
             \* fetch when page, token, or search changes
             s4 == IF chP \/ chD
                   THEN [FetchUsers([s3 EXCEPT !.page = st.page])
                            EXCEPT !.page = s3.page]
                   ELSE s3
         IN s4

\* render and commit until no effect has anything left to do
RECURSIVE Commit(_)
Commit(st) ==
    IF ~st.first /\ st.seen = Deps(st) THEN st ELSE Commit(Pass(st))

\* the component before its first commit
Fresh(kind, urlPage) ==
    [kind |-> kind, mounted |-> TRUE, first |-> TRUE,
     page |-> IF kind = "Users" THEN urlPage ELSE 1,
     filter |-> "all", searchQuery |-> "", debounced |-> "", timer |-> FALSE,
     data |-> NoData, loading |-> FALSE, err |-> "",
     reqs |-> {}, superseded |-> {}, nextId |-> 1,
     url |-> [page |-> IF kind = "Users" THEN urlPage ELSE 1, search |-> ""],
     seen |-> [page |-> 0, filter |-> "", searchQuery |-> "", debounced |-> "",
               url |-> [page |-> 0, search |-> ""]]]

ListIdle == lp = [kind |-> "none"]

ListInit ==
    \E kind \in ListKinds, urlPage \in 1..MaxPage :
        /\ kind # "Users" => urlPage = 1
        /\ lp = Commit(Fresh(kind, urlPage))

\* room for the requests one step can issue
CanIssue == lp.nextId + 1 <= MaxReqs

\* the pages that have a button in the pagination row
PageTargets(st) ==
    LET cur == CurrentPage(st)
        tot == TotalPages(st)
    IN IF st.kind = "Groups"
       THEN {p \in PagesOf(pageNumbers(cur, tot)) : TRUE}
            \cup (IF cur > 1 THEN {Max(1, st.page - 1)} ELSE {})
            \cup (IF cur < tot THEN {Min(tot, st.page + 1)} ELSE {})
       ELSE {p \in PagesOf(getPageNumbers(cur, tot)) : TRUE}
            \cup (IF cur > 1 THEN {cur - 1} ELSE {})
            \cup (IF cur < tot THEN {cur + 1} ELSE {})

\* the user clicks a pagination button (all are disabled while loading)
LClickPage ==
    /\ lp.mounted
    /\ CanIssue
    /\ ~lp.loading
    /\ \E p \in PageTargets(lp) :
          /\ p # lp.page
          /\ IF lp.kind = "Users"
             THEN \* handlePageChange
                  /\ p >= 1
                  /\ p <= TotalPages(lp)
                  /\ lp' = Commit([lp EXCEPT !.page = p, !.url.page = p])
             ELSE lp' = Commit([lp EXCEPT !.page = p])

\* the user picks another value in a filter Select
LSetFilter ==
    /\ lp.mounted
    /\ CanIssue
    /\ lp.kind \in EffectDriven
    /\ \E f \in Filters :
          /\ f # lp.filter
          /\ lp' = Commit([lp EXCEPT !.filter = f])

\* the user changes the text of the search box (the DataTable's Input, used
\* by Users, is disabled while loading)
LType ==
    /\ lp.mounted
    /\ lp.kind \in Debounced
    /\ lp.kind = "Users" => ~lp.loading
    /\ \E q \in ListQueries :
          /\ q # lp.searchQuery
          /\ lp' = Commit([lp EXCEPT !.searchQuery = q])

\* the debounce timer fires: setDebouncedSearch(searchQuery)
LTimerFire ==
    /\ lp.mounted
    /\ CanIssue
    /\ lp.timer
    /\ lp' = Commit([lp EXCEPT !.timer = FALSE, !.debounced = lp.searchQuery])

\* the status line and headers of a response arrive
LHeaders ==
    /\ lp.mounted
    /\ \E r \in lp.reqs, ok \in BOOLEAN :
          /\ r.phase = "sent"
          /\ lp' = [lp EXCEPT
                      !.reqs = (@ \ {r}) \cup {[r EXCEPT !.phase = "body", !.ok = ok]}]

\* What the server answers to request r: the collection has any number of
\* pages up to the bound, and the page returned is the one asked for or,
\* when that is past the end, the last one.
Answers(r) ==
    UNION {{[req |-> r.id, currentPage |-> cp, totalPages |-> tp] :
                cp \in {r.page, Min(r.page, tp)}} : tp \in 1..MaxPage}

\* the body of a response has been read: the then/catch/finally chain runs
LBodyDone ==
    /\ lp.mounted
    /\ lp.kind = "Users" => CanIssue
    /\ \E r \in lp.reqs :
          /\ r.phase = "body"
          /\ IF ~r.ok
             THEN lp' = [lp EXCEPT !.reqs = @ \ {r}, !.err = "failed",
                                   !.loading = FALSE]
             ELSE \E json \in Answers(r) :
                     IF lp.kind = "Users"
                     THEN lp' = Commit(
                             [lp EXCEPT
                                 !.reqs = @ \ {r},
                                 !.data = json,
                                 !.page = IF json.currentPage # r.closurePage
                                          THEN json.currentPage ELSE @,
                                 !.url.page = IF json.currentPage # r.closurePage
                                              THEN json.currentPage ELSE @,
                                 !.loading = FALSE])
                     ELSE lp' = [lp EXCEPT !.reqs = @ \ {r}, !.data = json,
                                           !.loading = FALSE]

\* the request fails without a response (network error)
LNetFail ==
    /\ lp.mounted
    /\ \E r \in lp.reqs :
          /\ r.phase = "sent"
          /\ lp' = [lp EXCEPT !.reqs = @ \ {r}, !.err = "failed", !.loading = FALSE]

\* The page unmounts.  The cleanups run: the timer is cleared and, on the
\* effect-driven pages, the request is aborted.  The requests of Users go
\* on; React ignores what their handlers set afterwards.
LUnmount ==
    /\ lp.mounted
    /\ lp' = [lp EXCEPT
                !.mounted = FALSE,
                !.timer = FALSE,
                !.superseded = IF lp.kind \in EffectDriven
                               THEN @ \cup {Replaced(r) : r \in lp.reqs} ELSE @,
                !.reqs = IF lp.kind \in EffectDriven THEN {} ELSE @]

\* a response for a page that is gone
LLate ==
    /\ ~lp.mounted
    /\ \E r \in lp.reqs : lp' = [lp EXCEPT !.reqs = @ \ {r}]

(***************************************************************************)
(* Session storage, the router and the transport layer.                    *)
(*                                                                         *)
(* One browser tab.  The stored session is the item "admin_auth" of        *)
(* localStorage and of sessionStorage; the location is the pathname (its   *)
(* segments) and the query string.  The pages are the ones that differ in  *)
(* how they send requests:                                                 *)
(*                                                                         *)
(*   Dashboard, Transactions  apiFetch with an abort signal; without a     *)
(*                            token they navigate to /login.               *)
(*   GroupDetails             apiFetch with an abort signal; without a     *)
(*                            token it navigates to /.                     *)
(*   Users                    fetch with its own Authorization header; no  *)
(*                            cleanup reaches React; without a token it    *)
(*                            shows an error.                              *)
(*   Resources                fetch with its own Authorization header for  *)
(*                            the list and for add, delete and update;     *)
(*                            without a token it navigates to /login.      *)
(*   BlogManagement           apiFetch without a signal and without a      *)
(*                            token check, for the list and for create     *)
(*                            and delete.                                  *)
(*                                                                         *)
(* The signed-in role is admin.                                            *)
(***************************************************************************)
\* the values of the stored item: none, a string JSON.parse rejects, the
\* object Login writes
Absent == [raw |-> "absent", token |-> "", role |-> ""]

Garbage == [raw |-> "garbage", token |-> "", role |-> ""]

Session == [raw |-> "json", token |-> "tok", role |-> "admin"]

Stored == {Absent, Garbage, Session}

\* getAuthToken (and the pages' useAuthToken / useToken): "" stands for null
getAuthToken(ls, ss) ==
    LET raw == IF ls # Absent THEN ls ELSE ss
    IN IF raw = Absent THEN ""
       ELSE IF raw.raw = "garbage" THEN ""
       ELSE raw.token

isAuthed(ls, ss) == ls # Absent \/ ss # Absent

Root == <<>>

LoginPath == <<"login">>

DashboardPath == <<"dashboard">>

\* the pages that have a link in the layout or in a list
LinkTargets ==
    {DashboardPath, <<"transactions">>, <<"users">>, <<"resources">>, <<"blog">>,
     <<"groups", "g1">>}

\* the addresses a user opens: the links, the root, /login and a group
\* address whose id is the word login
Paths == LinkTargets \cup {Root, LoginPath, <<"groups", "login">>}

\* no location.state
NoFrom == <<"">>

\* <Routes>: the element a pathname renders
PageAt(path) ==
    CASE path = Root -> "RootLogin"
      [] path = DashboardPath -> "Dashboard"
      [] path = <<"transactions">> -> "Transactions"
      [] path = <<"users">> -> "Users"
      [] path = <<"resources">> -> "Resources"
      [] path = <<"blog">> -> "BlogManagement"
      [] Len(path) = 2 /\ path[1] = "groups" -> "GroupDetails"
      [] OTHER -> "NotFound"

\* the pages rendered inside AdminLayout
LayoutPages ==
    {"Dashboard", "Transactions", "Users", "Resources", "BlogManagement",
     "GroupDetails"}

\* how a page sends its requests
Via(page) == IF page \in {"Users", "Resources"} THEN "fetch" ELSE "apiFetch"

\* whether the cleanup of the page's effect aborts its request
Aborts(page) == page \in {"Dashboard", "Transactions", "GroupDetails"}

\* the pages whose handlers send requests of their own
Acting == {"Resources", "BlogManagement"}

\* where the effect of a page navigates when the token is null
TokenGuard(page) ==
    CASE page \in {"Dashboard", "Transactions", "Resources"} -> LoginPath
      [] page = "GroupDetails" -> Root
      [] OTHER -> NoFrom

\* window.location.pathname.includes("/login"): no segment other than
\* login begins with these letters
IncludesLogin(path) == \E i \in 1..Len(path) : path[i] = "login"

AuthFailure == {401, 403}

Statuses == {200, 401, 403, 500}

Expired == "?expired=true"

\* The router renders a location until nothing navigates any more:
\* RootLogin sends a signed-in visitor to /dashboard, RequireAuth sends an
\* unsigned one to / with state.from, a page's effect navigates when the
\* token is null.
RECURSIVE Settle(_, _, _, _)
Settle(path, from, ls, ss) ==
    LET page == PageAt(path)
        here == [path |-> path, from |-> from]
    IN CASE page = "NotFound" -> here
         [] page = "RootLogin" ->
                IF isAuthed(ls, ss) THEN Settle(DashboardPath, NoFrom, ls, ss)
                ELSE here
         [] OTHER ->
                IF ~isAuthed(ls, ss) THEN Settle(Root, path, ls, ss)
                ELSE IF getAuthToken(ls, ss) = "" /\ TokenGuard(page) # NoFrom
                THEN Settle(TokenGuard(page), path, ls, ss)
                ELSE here

\* a request: who sent it, through what, whether a cleanup can abort it,
\* whether it carries an Authorization header, and whether it loads the
\* page's list or is one of the page's operations
Call(id, page, auth, op) ==
    [id |-> id, page |-> page, via |-> Via(page),
     abortable |-> Aborts(page) /\ op = "load", auth |-> auth, op |-> op]

\* the request the page at path sends when it mounts
Mount(path, ls, ss, id) ==
    LET page == PageAt(path)
        token == getAuthToken(ls, ss)
    IN IF page \in LayoutPages /\ (token # "" \/ page = "BlogManagement")
       THEN {Call(id, page, token # "", "load")}
       ELSE {}

\* the tab after going to target with the requests in keep still in flight
Landing(target, from, ls, ss, keep, id) ==
    LET at == Settle(target, from, ls, ss)
        new == Mount(at.path, ls, ss, id)
    IN [path |-> at.path, from |-> at.from, reqs |-> keep \cup new,
        next |-> id + Cardinality(new)]

\* the requests a page leaves in flight when it unmounts
Surviving == {r \in reqs : ~r.abortable}

NoResp == [id |-> 0, page |-> "", via |-> "", auth |-> FALSE, status |-> 0,
           returned |-> FALSE]

\* what a navigation to target leaves in wanted
Wanted(target, ls, ss) ==
    IF PageAt(target) \in LayoutPages /\ getAuthToken(ls, ss) = ""
    THEN target
    ELSE NoFrom

AppIdle ==
    /\ localStore = Absent
    /\ sessionStore = Absent
    /\ pathname = Root
    /\ locationSearch = ""
    /\ navFrom = NoFrom
    /\ reqs = {}
    /\ nextCall = 1
    /\ last = NoResp
    /\ wanted = NoFrom

\* the tab opens at some address with whatever the storage holds
AppInit ==
    \E ls \in Stored, ss \in Stored, target \in Paths :
        LET to == Landing(target, NoFrom, ls, ss, {}, 1)
        IN /\ localStore = ls
           /\ sessionStore = ss
           /\ pathname = to.path
           /\ locationSearch = ""
           /\ navFrom = to.from
           /\ reqs = to.reqs
           /\ nextCall = to.next
           /\ last = NoResp
           /\ wanted = Wanted(target, ls, ss)

CanCall == nextCall <= MaxCalls

\* apiFetch with only the localStorage item removed
apiFetchLocalOnly(status, st) ==
    IF status \in AuthFailure
    THEN [st EXCEPT
            !.local = Absent,
            !.path = IF IncludesLogin(st.path) THEN @ ELSE LoginPath,
            !.search = IF IncludesLogin(st.path) THEN @ ELSE Expired]
    ELSE st

\* apiFetch from the response on: on 401 or 403 both items are removed and,
\* unless the pathname includes "/login", location.href is assigned
\* "/login?expired=true"; the response is returned
apiFetch(status, st) ==
    IF status \in AuthFailure
    THEN [st EXCEPT
            !.local = Absent,
            !.session = Absent,
            !.path = IF IncludesLogin(st.path) THEN @ ELSE LoginPath,
            !.search = IF IncludesLogin(st.path) THEN @ ELSE Expired]
    ELSE st

\* the user follows a link of the layout or of a list: the page unmounts,
\* its cleanup aborts, the router renders the target
Link ==
    /\ PageAt(pathname) \in LayoutPages
    /\ CanCall
    /\ \E target \in LinkTargets \ {pathname} :
          LET to == Landing(target, NoFrom, localStore, sessionStore,
                            Surviving, nextCall)
          IN /\ pathname' = to.path
             /\ navFrom' = to.from
             /\ reqs' = to.reqs
             /\ nextCall' = to.next
             /\ wanted' = Wanted(target, localStore, sessionStore)
    /\ locationSearch' = ""
    /\ UNCHANGED <<localStore, sessionStore, last>>

\* the user opens an address or reloads: a new document, nothing of the
\* old one is left in flight
Open ==
    /\ CanCall
    /\ \E target \in Paths :
          LET to == Landing(target, NoFrom, localStore, sessionStore, {}, nextCall)
          IN /\ pathname' = to.path
             /\ navFrom' = to.from
             /\ reqs' = to.reqs
             /\ nextCall' = to.next
             /\ wanted' = Wanted(target, localStore, sessionStore)
    /\ locationSearch' = ""
    /\ UNCHANGED <<localStore, sessionStore, last>>

\* Login.handleSubmit with a 2xx answer that carries a token: the session
\* is written to the storage the checkbox selects, then
\* navigate(state?.from || "/dashboard")
LoginOk ==
    /\ PageAt(pathname) = "RootLogin"
    /\ CanCall
    /\ \E remember \in BOOLEAN :
          LET ls == IF remember THEN Session ELSE localStore
              ss == IF remember THEN sessionStore ELSE Session
              to == Landing(IF navFrom # NoFrom THEN navFrom ELSE DashboardPath,
                            NoFrom, ls, ss, Surviving, nextCall)
          IN /\ localStore' = ls
             /\ sessionStore' = ss
             /\ pathname' = to.path
             /\ navFrom' = to.from
             /\ reqs' = to.reqs
             /\ nextCall' = to.next
    /\ locationSearch' = ""
    /\ wanted' = NoFrom
    /\ UNCHANGED last

\* AdminLayout.handleLogout
Logout ==
    /\ PageAt(pathname) \in LayoutPages
    /\ localStore' = Absent
    /\ sessionStore' = Absent
    /\ LET to == Landing(Root, NoFrom, Absent, Absent, Surviving, nextCall)
       IN /\ pathname' = to.path
          /\ navFrom' = to.from
          /\ reqs' = to.reqs
          /\ nextCall' = to.next
    /\ locationSearch' = ""
    /\ wanted' = NoFrom
    /\ UNCHANGED last

\* a handler of the page sends a request: add, delete or update on
\* Resources, create or delete on BlogManagement
Act ==
    /\ PageAt(pathname) \in Acting
    /\ CanCall
    /\ reqs' = reqs \cup
                 {Call(nextCall, PageAt(pathname),
                       getAuthToken(localStore, sessionStore) # "", "mutate")}
    /\ nextCall' = nextCall + 1
    /\ UNCHANGED <<localStore, sessionStore, pathname, locationSearch, navFrom, last,
                   wanted>>

\* A response arrives.  Sent through apiFetch it passes the 401/403 check
\* first; assigning location.href loads a new document, which ends every
\* other request.  The caller then gets the response; after a 2xx answer to
\* one of its operations the page loads its list again.
Respond ==
    \E r \in reqs, status \in Statuses :
        LET now == [local |-> localStore, session |-> sessionStore,
                    path |-> pathname, search |-> locationSearch]
            after == IF r.via = "apiFetch" THEN apiFetch(status, now) ELSE now
            again == r.op = "mutate" /\ status = 200
            auth == IF r.via = "fetch" THEN r.auth
                    ELSE getAuthToken(localStore, sessionStore) # ""
        IN /\ again => CanCall
           /\ localStore' = after.local
           /\ sessionStore' = after.session
           /\ pathname' = after.path
           /\ locationSearch' = after.search
           /\ IF after.path # pathname
              THEN /\ reqs' = {}
                   /\ navFrom' = NoFrom
                   /\ nextCall' = nextCall
                   /\ wanted' = NoFrom
              ELSE /\ reqs' = (reqs \ {r}) \cup
                                (IF again
                                 THEN {Call(nextCall, r.page, auth, "load")}
                                 ELSE {})
                   /\ nextCall' = IF again THEN nextCall + 1 ELSE nextCall
                   /\ UNCHANGED <<navFrom, wanted>>
           /\ last' = [id |-> r.id, page |-> r.page, via |-> r.via,
                       auth |-> r.auth, status |-> status, returned |-> TRUE]

\* the request fails without a response: fetch rejects and so does apiFetch
NetFail ==
    \E r \in reqs :
        /\ reqs' = reqs \ {r}
        /\ last' = [id |-> r.id, page |-> r.page, via |-> r.via,
                    auth |-> r.auth, status |-> 0, returned |-> FALSE]
        /\ UNCHANGED <<localStore, sessionStore, pathname, locationSearch, navFrom,
                       nextCall, wanted>>

(***************************************************************************)
(* The stored session seen from two tabs.                                  *)
(*                                                                         *)
(* localStorage is shared by the tabs of the browser, sessionStorage       *)
(* belongs to one tab.  A tab shows the Login form (RootLogin found no     *)
(* stored item when it rendered), a page of the application, or the        *)
(* not-found page it reaches through /login?expired=true.  The pages       *)
(* resolve the token and the role from the stored item when they mount.    *)
(***************************************************************************)
Tabs == {1, 2}

\* the roles the server gives an administrator
ServerRoles == {"admin", "account", "front_desk", "customer_support"}

\* the tokens of successive logins
TokenNames == <<"tok1", "tok2", "tok3", "tok4">>

SessionOf(token, role) == [raw |-> "json", token |-> token, role |-> role]

\* localStorage.getItem(KEY) || sessionStorage.getItem(KEY)
RawItem(ls, ss) == IF ls # Absent THEN ls ELSE ss

\* useUserRole of the pages: null ("") without an item and after a parse
\* failure
useUserRole(ls, ss) ==
    LET raw == RawItem(ls, ss)
    IN IF raw = Absent THEN ""
       ELSE IF raw.raw = "garbage" THEN ""
       ELSE raw.role

\* The token and role useMemo of UserDetails:
\*     raw ? JSON.parse(raw)?.token : null
\* JSON.parse is not inside a try block.
ResolveUnguarded(ls, ss) ==
    LET raw == RawItem(ls, ss)
    IN IF raw = Absent THEN [threw |-> FALSE, token |-> "", role |-> ""]
       ELSE IF raw.raw = "garbage" THEN [threw |-> TRUE, token |-> "", role |-> ""]
       ELSE [threw |-> FALSE, token |-> raw.token, role |-> raw.role]

\* getAuthToken and the useAuthToken / useToken / useUserRole hooks
ResolveGuarded(ls, ss) ==
    [threw |-> FALSE, token |-> getAuthToken(ls, ss), role |-> useUserRole(ls, ss)]

\* the places that read the stored item, by how they parse it
CallSites == {"getAuthToken", "Users", "PayoutRequests", "AdminLayout", "UserDetails"}

Resolve(site, ls, ss) ==
    IF site = "UserDetails" THEN ResolveUnguarded(ls, ss) ELSE ResolveGuarded(ls, ss)

NoView == [denied |-> FALSE, columns |-> <<>>, actions |-> {}, banner |-> FALSE]

\* What the Users page renders for a role: the access-denied message, or
\* the table with the columns and row actions of the role and the banner
\* of the limited roles.
UsersView(userRole) ==
    LET hasFullAccess == userRole = "admin" \/ userRole = "account"
        hasLimitedView == userRole = "frontDesk"
        hasReadOnly == userRole = "customerSupport"
        canViewDetails == hasFullAccess \/ hasLimitedView \/ hasReadOnly
        canSuspendUsers == hasFullAccess
        columns == IF hasLimitedView
                   THEN <<"Name", "Email", "Status">>
                   ELSE IF hasReadOnly
                   THEN <<"Name", "Email", "Type", "Status">>
                   ELSE <<"Name", "Email", "Type", "Status", "Verified", "Joined">>
        actions == (IF canViewDetails THEN {"View Details"} ELSE {})
                   \cup (IF canSuspendUsers THEN {"Suspend"} ELSE {})
    IN IF userRole = "" \/ ~canViewDetails
       THEN [denied |-> TRUE, columns |-> <<>>, actions |-> {}, banner |-> FALSE]
       ELSE [denied |-> FALSE, columns |-> columns, actions |-> actions,
             banner |-> hasLimitedView \/ hasReadOnly]

\* the item Login.handleSubmit stores for a response with this token and
\* this admin.role ("" when the response has none)
StoredAtLogin(token, respRole) ==
    SessionOf(token, IF respRole # "" THEN respRole ELSE "admin")

\* removal of the localStorage item only
destroySessionLocalOnly(st) == [st EXCEPT !.local = Absent]

\* logout(), AdminLayout.handleLogout and the 401/403 branch of apiFetch:
\* removeItem on both storages
destroySession(st) == [local |-> Absent, session |-> Absent]

Destroyers == {"handleLogout", "logout", "apiFetch"}

NoOp == [op |-> "none", tab |-> 0, via |-> "", respRole |-> "",
         before |-> [local |-> Absent, session |-> Absent]]

NoRender == [tab |-> 0, page |-> "", threw |-> FALSE, role |-> "", view |-> NoView]

\* what RootLogin and RequireAuth make of the stored item
Showing(ls, ss) == IF isAuthed(ls, ss) THEN "app" ELSE "form"

SeIdle ==
    /\ seLocal = Absent
    /\ seTab = [t \in Tabs |-> Absent]
    /\ seAt = [t \in Tabs |-> "form"]
    /\ seMine = [t \in Tabs |-> Absent]
    /\ seLogins = 0
    /\ seView = NoRender
    /\ seLast = NoOp

\* the tabs open with whatever the storages hold: nothing, a string that
\* does not parse, or a session written by an earlier visit
SeInit ==
    /\ seLocal \in {Absent, Garbage, SessionOf("tok0", "front_desk"),
                    SessionOf("tok0", "frontDesk")}
    /\ seTab \in [Tabs -> {Absent, Garbage}]
    /\ seAt = [t \in Tabs |-> Showing(seLocal, seTab[t])]
    /\ seMine = [t \in Tabs |-> Absent]
    /\ seLogins = 0
    /\ seView = NoRender
    /\ seLast = NoOp

\* Login.handleSubmit with a 2xx answer that carries a token
SeLogin ==
    /\ seLogins < MaxLogins
    /\ \E t \in Tabs, remember \in BOOLEAN, respRole \in ServerRoles \cup {""} :
          LET created == StoredAtLogin(TokenNames[seLogins + 1], respRole)
          IN /\ seAt[t] = "form"
             /\ seLocal' = IF remember THEN created ELSE seLocal
             /\ seTab' = IF remember THEN seTab ELSE [seTab EXCEPT ![t] = created]
             /\ seMine' = [seMine EXCEPT ![t] = created]
             /\ seAt' = [seAt EXCEPT ![t] = "app"]
             /\ seLast' = [NoOp EXCEPT !.op = "login", !.tab = t,
                                       !.respRole = respRole,
                                       !.before = [local |-> seLocal,
                                                   session |-> seTab[t]]]
    /\ seLogins' = seLogins + 1
    /\ UNCHANGED seView

\* The session is destroyed in a tab: the Logout item of the layout menu
\* and the inactivity timer, both while a page of the application is
\* shown, or apiFetch receiving 401 or 403, which may also answer a request
\* that outlived its page.
SeDestroy ==
    \E t \in Tabs, via \in Destroyers :
        LET before == [local |-> seLocal, session |-> seTab[t]]
            after == destroySession(before)
        IN /\ IF via = "apiFetch" THEN seAt[t] \in {"app", "form"}
              ELSE seAt[t] = "app"
           /\ seLocal' = after.local
           /\ seTab' = [seTab EXCEPT ![t] = after.session]
           /\ seMine' = [seMine EXCEPT ![t] = Absent]
           /\ seAt' = [seAt EXCEPT ![t] = IF via = "apiFetch" THEN "notfound"
                                          ELSE "form"]
           /\ seLast' = [NoOp EXCEPT !.op = "destroy", !.tab = t, !.via = via,
                                     !.before = before]
           /\ UNCHANGED <<seLogins, seView>>

\* the tab loads / again
SeOpen ==
    \E t \in Tabs :
        /\ seAt' = [seAt EXCEPT ![t] = Showing(seLocal, seTab[t])]
        /\ seAt' # seAt
        /\ UNCHANGED <<seLocal, seTab, seMine, seLogins, seView, seLast>>

\* a page mounts in a tab behind RequireAuth and resolves token and role
SeRender ==
    \E t \in Tabs, page \in {"Users", "UserDetails"} :
        LET got == Resolve(page, seLocal, seTab[t])
        IN /\ seAt[t] = "app"
           /\ isAuthed(seLocal, seTab[t])
           /\ seView' = [tab |-> t, page |-> page, threw |-> got.threw,
                         role |-> got.role,
                         view |-> IF page = "Users" THEN UsersView(got.role)
                                  ELSE NoView]
           /\ UNCHANGED <<seLocal, seTab, seAt, seMine, seLogins, seLast>>

(***************************************************************************)
(* PayoutRequests: approving and rejecting.                                *)
(*                                                                         *)
(* po is the mounted page, on its first page of results, together with     *)
(* the collection on the server.  The search box changes what the list     *)
(* request returns; the confirmation modal covers the page while it is     *)
(* open.  handleStatusUpdate sends the PATCH and, on success, writes the   *)
(* list back from the data of the render it was called in.                 *)
(***************************************************************************)
RowIds == {"r1", "r2"}

\* the role the page resolved when it mounted; "" is null
PayoutRoles == {"admin", "account", "customer_support", "front_desk", "marketing", ""}

\* the rows the server returns for a search text: "s" matches r1 only
Matching(q) == IF q = "" THEN RowIds ELSE {"r1"}

RowsFor(q, srv) == [r \in Matching(q) |-> srv[r]]

NoRows == [loaded |-> FALSE, rows |-> <<>>]

NoAction == [id |-> "", status |-> ""]

canView(role) == role = "admin" \/ role = "account" \/ role = "customer_support"

\* a canUpdate that follows canView
canUpdateAsView(role) == canView(role)

canUpdate(role) == role = "admin" \/ role = "account"

\* data.payoutRequests.map(req => req._id === id ? {...req, status} : req)
PatchRows(rows, id, status) ==
    [r \in DOMAIN rows |-> IF r = id THEN status ELSE rows[r]]

\* the list after a successful PATCH: setData({...data, payoutRequests})
\* with the data of the render in which handleStatusUpdate was called
PatchCaptured(data, captured, id, status) ==
    IF captured.loaded
    THEN [captured EXCEPT !.rows = PatchRows(captured.rows, id, status)]
    ELSE data

PoIdle == po = [role |-> "none"]

\* the page has mounted; its first list request is in flight if the role
\* may view the list, otherwise the page shows "Access Denied"
PoInit ==
    \E role \in PayoutRoles, srv \in [RowIds -> {"pending", "completed"}] :
        po = [role |-> role, srv |-> srv, data |-> NoRows,
              loading |-> canView(role),
              searchQuery |-> "", debounced |-> "", timer |-> TRUE,
              reqs |-> IF canView(role) THEN {[q |-> ""]} ELSE {},
              confirmAction |-> NoAction,
              updatingId |-> "", updateError |-> FALSE, patches |-> {}]

\* openConfirmation from the Approve / Reject buttons of a pending row
PoOpenConfirmation ==
    /\ po.confirmAction = NoAction
    /\ ~po.loading
    /\ canUpdate(po.role)
    /\ \E row \in DOMAIN po.data.rows, status \in {"completed", "failed"} :
          /\ po.data.rows[row] = "pending"
          /\ po.updatingId # row
          /\ po' = [po EXCEPT !.confirmAction = [id |-> row, status |-> status],
                              !.updateError = FALSE]

\* the Cancel button of the modal
PoCancel ==
    /\ po.confirmAction # NoAction
    /\ po.updatingId = ""
    /\ po' = [po EXCEPT !.confirmAction = NoAction]

\* the Confirm button of the modal: handleStatusUpdate up to the await
PoConfirm ==
    /\ po.confirmAction # NoAction
    /\ canUpdate(po.role)
    /\ po.updatingId = ""
    /\ po' = [po EXCEPT
                !.updatingId = po.confirmAction.id,
                !.updateError = FALSE,
                !.patches = @ \cup {[id |-> po.confirmAction.id,
                                     status |-> po.confirmAction.status,
                                     captured |-> po.data]}]

\* the PATCH is answered: handleStatusUpdate from the await on
PoPatchDone ==
    \E p \in po.patches, ok \in BOOLEAN :
        IF ok
        THEN po' = [po EXCEPT
                      !.patches = @ \ {p},
                      !.srv = [@ EXCEPT ![p.id] = p.status],
                      !.data = PatchCaptured(po.data, p.captured, p.id, p.status),
                      !.confirmAction = NoAction,
                      !.updatingId = ""]
        ELSE po' = [po EXCEPT
                      !.patches = @ \ {p},
                      !.updateError = TRUE,
                      !.updatingId = ""]

\* the user changes the text of the search box (not reachable under the
\* modal)
PoType ==
    /\ canView(po.role)
    /\ po.confirmAction = NoAction
    /\ \E q \in {"", "s"} :
          /\ q # po.searchQuery
          /\ po' = [po EXCEPT !.searchQuery = q, !.timer = TRUE]

\* the debounce timer fires; when debouncedSearch changes the fetch effect
\* runs again: its cleanup aborts, then setLoading(true) and apiFetch
PoTimerFire ==
    /\ po.timer
    /\ IF po.searchQuery = po.debounced
       THEN po' = [po EXCEPT !.timer = FALSE]
       ELSE po' = [po EXCEPT
                     !.timer = FALSE,
                     !.debounced = po.searchQuery,
                     !.reqs = {[q |-> po.searchQuery]},
                     !.loading = LoadingAfterFetch(po.reqs # {})]

\* the list request is answered
PoFetchDone ==
    \E r \in po.reqs :
        po' = [po EXCEPT !.reqs = {},
                         !.data = [loaded |-> TRUE, rows |-> RowsFor(r.q, po.srv)],
                         !.loading = FALSE]

(***************************************************************************)
(* The request apiFetch builds.                                            *)
(*                                                                         *)
(* A caller hands apiFetch an optional init: method, body, signal and      *)
(* headers.  The headers are a list of name/value entries; the Headers     *)
(* class compares names without regard to case and joins the values of a   *)
(* repeated name.  A header value is written as the sequence of the values *)
(* joined; an option that is not given is "".                              *)
(***************************************************************************)
HeaderNames == {"Accept", "accept", "Authorization", "authorization", "X-Request-Id"}

HeaderValues == {"text/csv", "Bearer own"}

\* the name a Headers object files an entry under
Lower(name) ==
    CASE name \in {"Accept", "accept"} -> "accept"
      [] name \in {"Authorization", "authorization"} -> "authorization"
      [] OTHER -> "x-request-id"

\* new Headers(): no entry
NoHeaders == [n \in {} |-> <<>>]

\* headers.append(name, value)
HeadersAppend(h, name, value) ==
    LET n == Lower(name)
    IN [k \in DOMAIN h \cup {n} |->
            IF k = n
            THEN (IF n \in DOMAIN h THEN h[n] ELSE <<>>) \o <<value>>
            ELSE h[k]]

\* headers.set(name, value)
HeadersSet(h, name, value) ==
    LET n == Lower(name)
    IN [k \in DOMAIN h \cup {n} |-> IF k = n THEN <<value>> ELSE h[k]]

\* headers.has(name)
HeadersHas(h, name) == Lower(name) \in DOMAIN h

\* new Headers(init?.headers)
RECURSIVE Headers(_)
Headers(entries) ==
    IF entries = <<>>
    THEN NoHeaders
    ELSE LET e == entries[Len(entries)]
         IN HeadersAppend(Headers(SubSeq(entries, 1, Len(entries) - 1)),
                          e.name, e.value)

\* apiFetch up to the call of fetch, with Accept set whatever the caller gave
apiFetchAlwaysAccept(init, ls, ss) ==
    LET token == getAuthToken(ls, ss)
        h0 == Headers(init.headers)
        h1 == IF token # "" THEN HeadersSet(h0, "Authorization", "Bearer " \o token)
              ELSE h0
    IN [init EXCEPT !.headers = HeadersSet(h1, "Accept", "application/json")]

\* apiFetch up to the call of fetch: the config it passes
apiFetchConfig(init, ls, ss) ==
    LET token == getAuthToken(ls, ss)
        h0 == Headers(init.headers)
        h1 == IF token # "" THEN HeadersSet(h0, "Authorization", "Bearer " \o token)
              ELSE h0
        h2 == IF ~HeadersHas(h1, "Accept")
              THEN HeadersSet(h1, "Accept", "application/json")
              ELSE h1
    IN [init EXCEPT !.headers = h2]

Entries == [name : HeaderNames, value : HeaderValues]

\* the init objects of the callers: none (every option absent), or some of
\* method, body, signal and up to MaxHeaders header entries
Inits ==
    [method : {"", "PATCH"}, body : {"", "{}"}, signal : {"", "ctl.signal"},
     headers : UNION {[1..n -> Entries] : n \in 0..MaxHeaders}]

NoConfig == [method |-> "", body |-> "", signal |-> "", headers |-> <<>>]

HdIdle == hd = [init |-> NoConfig]

HdInit ==
    \E init \in Inits, ls \in Stored, ss \in Stored :
        hd = [init |-> init, ls |-> ls, ss |-> ss, called |-> FALSE,
              config |-> NoConfig]

\* apiFetch(url, init) reaches fetch(url, config)
HdFetch ==
    /\ ~hd.called
    /\ hd' = [hd EXCEPT !.called = TRUE,
                        !.config = apiFetchConfig(hd.init, hd.ls, hd.ss)]

(***************************************************************************)
(* The inactivity timer.                                                   *)
(*                                                                         *)
(* One tab.  InactivityMonitor wraps the routes; its effect (deps          *)
(* location.pathname) registers resetTimer for the activity events and     *)
(* calls it once, and its cleanup clears the timeout.  ia.timers are the   *)
(* timeouts the browser holds, ia.ref is timeoutRef.current (0 for null).  *)
(* Time is counted in units of 10 minutes; a timeout fires when it is due: *)
(* the clock does not pass a due timeout.  A login is a click on the form  *)
(* followed, some time later, by the response.                             *)
(***************************************************************************)
INACTIVITY_TIMEOUT == 3

NoEvent == [op |-> "none", at |-> 0, due |-> 0]

\* clearTimeout(timeoutRef.current)
ClearRef(st) ==
    IF st.ref # 0 THEN [st EXCEPT !.timers = {t \in @ : t.id # st.ref}] ELSE st

\* a resetTimer that leaves the existing timeout pending
resetTimerNoClear(st) ==
    IF isAuthed(st.ls, st.ss) /\ st.path # Root
    THEN [st EXCEPT
            !.timers = @ \cup {[id |-> st.nextId, due |-> st.now + INACTIVITY_TIMEOUT]},
            !.ref = st.nextId,
            !.nextId = @ + 1]
    ELSE st

\* resetTimer: clear the existing timeout; set a new one if the user is
\* authenticated and not on the login page
resetTimer(st) ==
    LET c == ClearRef(st)
    IN IF isAuthed(c.ls, c.ss) /\ c.path # Root
       THEN [c EXCEPT
               !.timers = @ \cup {[id |-> c.nextId, due |-> c.now + INACTIVITY_TIMEOUT]},
               !.ref = c.nextId,
               !.nextId = @ + 1]
       ELSE c

\* The router goes to target.  When the pathname ends up different, the
\* effect's cleanup clears the timeout and the effect runs again:
\* resetTimer for the new pathname.
Navigate(st, target) ==
    LET to == Settle(target, NoFrom, st.ls, st.ss).path
    IN IF to = st.path
       THEN st
       ELSE resetTimer([ClearRef(st) EXCEPT !.path = to, !.lastRoute = st.now])

IaTargets == {DashboardPath, <<"users">>}

IaIdle == ia = [now |-> 0]

\* a document just loaded at /, with or without a stored item, before the
\* first commit
IaFresh(ls) ==
    [now |-> 0, path |-> Root, ls |-> ls, ss |-> Absent, timers |-> {}, ref |-> 0,
     nextId |-> 1, lastEvent |-> -1, lastRoute |-> 0, pending |-> "", last |-> NoEvent]

IaInit ==
    \E ls \in Stored :
        ia = Navigate(resetTimer(IaFresh(ls)), Root)

IaMounted == "path" \in DOMAIN ia

IaCanArm == ia.nextId + 2 <= MaxTimers

\* mousedown, mousemove, keypress, scroll, touchstart or click
IaActivity ==
    /\ IaMounted
    /\ IaCanArm
    /\ ia' = resetTimer([ia EXCEPT !.lastEvent = ia.now,
                                   !.last = [op |-> "event", at |-> ia.now, due |-> 0]])

\* a click on a link of the layout
IaLink ==
    /\ IaMounted
    /\ IaCanArm
    /\ PageAt(ia.path) \in LayoutPages
    /\ \E target \in IaTargets :
          /\ target # ia.path
          /\ ia' = Navigate(
                     resetTimer([ia EXCEPT
                         !.lastEvent = ia.now,
                         !.last = [op |-> "link", at |-> ia.now, due |-> 0]]),
                     target)

\* Login: the click on "Sign in"; the request goes out
IaSubmit ==
    /\ IaMounted
    /\ IaCanArm
    /\ PageAt(ia.path) = "RootLogin"
    /\ ia.pending = ""
    /\ \E storage \in {"local", "session"} :
          ia' = resetTimer([ia EXCEPT
                    !.lastEvent = ia.now,
                    !.pending = storage,
                    !.last = [op |-> "submit", at |-> ia.now, due |-> 0]])

\* Login: the response arrives: storage.setItem, navigate(state?.from ||
\* "/dashboard")
IaLoginDone ==
    /\ IaMounted
    /\ IaCanArm
    /\ ia.pending # ""
    /\ PageAt(ia.path) = "RootLogin"
    /\ ia' = Navigate(
               [ia EXCEPT
                   !.ls = IF ia.pending = "local" THEN Session ELSE @,
                   !.ss = IF ia.pending = "session" THEN Session ELSE @,
                   !.pending = "",
                   !.last = [op |-> "login", at |-> ia.now, due |-> 0]],
               DashboardPath)

\* AdminLayout.handleLogout: a click, both items removed, navigate("/")
IaLogoutClick ==
    /\ IaMounted
    /\ IaCanArm
    /\ PageAt(ia.path) \in LayoutPages
    /\ LET clicked == resetTimer([ia EXCEPT !.lastEvent = ia.now])
           d == destroySession([local |-> ia.ls, session |-> ia.ss])
       IN ia' = Navigate(
                  [clicked EXCEPT
                      !.ls = d.local,
                      !.ss = d.session,
                      !.last = [op |-> "logout", at |-> ia.now, due |-> 0]],
                  Root)

\* a timeout is due: logout(); navigate("/", { replace: true })
IaFire ==
    /\ IaMounted
    /\ \E t \in ia.timers :
          /\ t.due = ia.now
          /\ LET d == destroySession([local |-> ia.ls, session |-> ia.ss])
             IN ia' = Navigate(
                        [ia EXCEPT
                            !.timers = @ \ {t},
                            !.ls = d.local,
                            !.ss = d.session,
                            !.last = [op |-> "fire", at |-> ia.now, due |-> t.due]],
                        Root)

\* ten minutes pass
IaTick ==
    /\ IaMounted
    /\ ia.now < MaxClock
    /\ \A t \in ia.timers : t.due > ia.now
    /\ ia' = [ia EXCEPT !.now = @ + 1]

(***************************************************************************)
(* AppSidebar.                                                             *)
(*                                                                         *)
(* sb.role is the role of the stored session; the component never reads   *)
(* it.  sb.shown are the titles of the links         *)
(* rendered (a collapsed sidebar still renders the links of the main and   *)
(* support groups, as icons).                                              *)
(***************************************************************************)
currentUserRole == "Admin"

AllLabels == {"Admin", "Account", "Front Desk", "Customer Support", "Marketing"}

Staff == {"Admin", "Account", "Front Desk", "Customer Support"}

mainItems ==
    {[title |-> "Dashboard", url |-> "/dashboard", roles |-> AllLabels],
     [title |-> "Users", url |-> "/users", roles |-> Staff],
     [title |-> "Groups", url |-> "/groups", roles |-> Staff],
     [title |-> "Affiliates", url |-> "/affiliates", roles |-> {"Admin", "Account"}],
     [title |-> "Transactions", url |-> "/transactions",
      roles |-> {"Admin", "Account", "Customer Support"}],
     [title |-> "Payout Requests", url |-> "/payout-requests",
      roles |-> {"Admin", "Account", "Customer Support"}],
     [title |-> "Resources", url |-> "/resources", roles |-> AllLabels],
     [title |-> "Blog", url |-> "/blog", roles |-> {"Admin", "Account", "Marketing"}],
     [title |-> "Create Admin", url |-> "/create-admin", roles |-> {"Admin"}]}

reportsItems ==
    {[title |-> "Group Contributions", url |-> "/reports/group-contributions", roles |-> Staff],
     [title |-> "Withdrawals", url |-> "/reports/withdrawals", roles |-> Staff],
     [title |-> "Members Activity", url |-> "/reports/members-activity", roles |-> Staff],
     [title |-> "Circle Progress", url |-> "/reports/circle-progress", roles |-> Staff]}

supportItems ==
    {[title |-> "Support", url |-> "/support", roles |-> Staff]}

\* the links AppSidebar renders
AppSidebarShown(isCollapsed, reportsOpen) ==
    LET filteredMainItems == {i \in mainItems : currentUserRole \in i.roles}
        filteredReportsItems == {i \in reportsItems : currentUserRole \in i.roles}
        filteredSupportItems == {i \in supportItems : currentUserRole \in i.roles}
        hasReportsAccess == filteredReportsItems # {}
    IN filteredMainItems \cup filteredSupportItems
       \cup (IF hasReportsAccess /\ ~isCollapsed /\ reportsOpen
             THEN filteredReportsItems ELSE {})

\* the roles a stored session carries
SidebarRoles == {"admin", "account", "front_desk", "customer_support", "marketing"}

SbIdle == sb = [role |-> "none"]

\* the layout mounts at one of the addresses: isCollapsed is false and
\* reportsOpen is pathname.startsWith("/reports")
SbInit ==
    \E role \in SidebarRoles, at \in mainItems \cup reportsItems \cup supportItems :
        sb = [role |-> role, pathname |-> at.url, isCollapsed |-> FALSE,
              reportsOpen |-> at \in reportsItems,
              shown |-> AppSidebarShown(FALSE, at \in reportsItems)]

SbToggleSidebar ==
    sb' = [sb EXCEPT !.isCollapsed = ~@,
                     !.shown = AppSidebarShown(~sb.isCollapsed, sb.reportsOpen)]

SbToggleReports ==
    sb' = [sb EXCEPT !.reportsOpen = ~@,
                     !.shown = AppSidebarShown(sb.isCollapsed, ~sb.reportsOpen)]

\* a click on one of the links shown
SbNavLink ==
    \E i \in sb.shown :
        /\ i.url # sb.pathname
        /\ sb' = [sb EXCEPT !.pathname = i.url]

(***************************************************************************)
(* Handlers that send a request and patch or refresh the list.             *)
(*                                                                         *)
(* mu is one mounted page with its list loaded, seen by a role that may    *)
(* manage it:                                                              *)
(*                                                                         *)
(*   Support      rows are the tickets' statuses; selected is              *)
(*                selectedTicket, the ticket open in the details modal     *)
(*                ("" for null).  handleUpdateStatus(newStatus) is called  *)
(*                from the modal's buttons and from the rows' action menu. *)
(*   Resources    rows are is_active; handleUpdateStatus(resourceId,       *)
(*                isActive) sends a PUT and then reloads the list.         *)
(*   CreateAdmin  rows are the admins listed; refreshAdmins runs after a   *)
(*                create, update or delete has succeeded.                  *)
(*                                                                         *)
(* mu.err is the error the page shows.  A request settles with a 2xx       *)
(* response ("ok"), another response ("non2xx") or a rejected fetch        *)
(* ("threw").                                                              *)
(***************************************************************************)
MuPages == {"Support", "Resources", "CreateAdmin"}

Outcomes == {"ok", "non2xx", "threw"}

MuValues(page) ==
    CASE page = "Support" -> {"open", "resolved", "closed"}
      [] page = "Resources" -> {"active", "inactive"}
      [] OTHER -> {"listed", "removed"}

NoCall == [op |-> "none", id |-> "", value |-> "", outcome |-> ""]

MuIdle == mu = [page |-> "none"]

MuInit ==
    \E page \in MuPages :
        \E rows \in [RowIds -> MuValues(page)] :
            mu = [page |-> page, rows |-> rows, selected |-> "", calls |-> {},
                  err |-> "", asked |-> NoCall, last |-> NoCall]

MuCanCall == Cardinality(mu.calls) < MaxInflight

\* Support.handleUpdateStatus(newStatus) up to the await: nothing without a
\* selectedTicket, otherwise the PATCH for selectedTicket._id; the closure
\* keeps the data of this render
SupportUpdateStatus(st, newStatus) ==
    IF st.selected = ""
    THEN st
    ELSE [st EXCEPT !.calls = @ \cup {[op |-> "Support.handleUpdateStatus",
                                        id |-> st.selected, value |-> newStatus,
                                        captured |-> st.rows]}]

\* Support.handleViewTicket(row)
MuView ==
    /\ mu.page = "Support"
    /\ mu.selected = ""
    /\ \E r \in RowIds :
          mu' = [mu EXCEPT !.selected = r,
                           !.asked = [NoCall EXCEPT !.op = "View Details", !.id = r]]

\* Support.handleCloseModal
MuCloseModal ==
    /\ mu.page = "Support"
    /\ mu.selected # ""
    /\ mu' = [mu EXCEPT !.selected = "",
                        !.asked = [NoCall EXCEPT !.op = "close"]]

\* Support: "Mark as Resolved" or "Mark as Closed" in the action menu of
\* row r.  The modal is a div laid over the page; the menu behind it stays
\* reachable from the keyboard.
MuRowAction ==
    /\ mu.page = "Support"
    /\ MuCanCall
    /\ \E r \in RowIds, newStatus \in {"resolved", "closed"} :
          mu' = [SupportUpdateStatus(mu, newStatus) EXCEPT
                    !.asked = [NoCall EXCEPT !.op = "row", !.id = r, !.value = newStatus]]

\* Support: the status buttons of the details modal; the button of the
\* status the ticket has is disabled
MuModalStatus ==
    /\ mu.page = "Support"
    /\ MuCanCall
    /\ mu.selected # ""
    /\ \E newStatus \in MuValues("Support") :
          /\ newStatus # mu.rows[mu.selected]
          /\ mu' = [SupportUpdateStatus(mu, newStatus) EXCEPT
                    !.asked = [NoCall EXCEPT !.op = "modal", !.id = mu.selected,
                                             !.value = newStatus]]

\* Resources.handleUpdateStatus(row._id, !row.is_active) up to the await
MuToggle ==
    /\ mu.page = "Resources"
    /\ MuCanCall
    /\ \E r \in RowIds :
          LET to == IF mu.rows[r] = "active" THEN "inactive" ELSE "active"
          IN mu' = [mu EXCEPT
                      !.calls = @ \cup {[op |-> "Resources.handleUpdateStatus",
                                         id |-> r, value |-> to, captured |-> mu.rows]},
                      !.asked = [NoCall EXCEPT !.op = "row", !.id = r, !.value = to]]

\* CreateAdmin: a create, update or delete has succeeded: refreshAdmins()
MuRefresh ==
    /\ mu.page = "CreateAdmin"
    /\ MuCanCall
    /\ mu' = [mu EXCEPT
                !.calls = @ \cup {[op |-> "CreateAdmin.refreshAdmins", id |-> "",
                                   value |-> "", captured |-> mu.rows]},
                !.asked = [NoCall EXCEPT !.op = "refresh"]]

\* The rest of a handler once its request has settled.
\*   Support.handleUpdateStatus: 2xx patches the captured list and the
\*     open ticket; otherwise the catch logs to the console.
\*   Resources.handleUpdateStatus: 2xx calls fetchResources (setErr(null),
\*     a list request); otherwise the catch logs to the console.
\*   CreateAdmin.refreshAdmins: 2xx with a list stores it; another response
\*     does nothing; catch is empty.
\*   fetchResources: 2xx stores the list; otherwise setErr.
AfterSettle(st, c, outcome, list) ==
    LET done == [st EXCEPT !.calls = @ \ {c},
                           !.last = [op |-> c.op, id |-> c.id, value |-> c.value,
                                     outcome |-> outcome]]
    IN CASE c.op = "Support.handleUpdateStatus" ->
                IF outcome = "ok"
                THEN [done EXCEPT !.rows = PatchRows(c.captured, c.id, c.value)]
                ELSE done
         [] c.op = "Resources.handleUpdateStatus" ->
                IF outcome = "ok"
                THEN [done EXCEPT
                        !.err = "",
                        !.calls = @ \cup {[op |-> "fetchResources", id |-> "",
                                           value |-> "", captured |-> st.rows]}]
                ELSE done
         [] c.op = "CreateAdmin.refreshAdmins" ->
                IF outcome = "ok" THEN [done EXCEPT !.rows = list] ELSE done
         [] OTHER ->
                IF outcome = "ok" THEN [done EXCEPT !.rows = list]
                ELSE [done EXCEPT !.err = "Failed to load resources"]

\* a request settles; list is what the server returns for a list request
MuSettle ==
    /\ mu.page \in MuPages
    /\ \E c \in mu.calls, outcome \in Outcomes, list \in [RowIds -> MuValues(mu.page)] :
          /\ (c.op \in {"Support.handleUpdateStatus", "Resources.handleUpdateStatus"}
                \/ outcome # "ok") => list = mu.rows
          /\ mu' = [AfterSettle(mu, c, outcome, list) EXCEPT !.asked = NoCall]

(***************************************************************************)
(* The client-side checks of the forms.                                    *)
(*                                                                         *)
(* A text is the sequence of its characters.  The forms are filled in by   *)
(* a user who is signed in and may use them (token, id and hasAccess are   *)
(* there).  fm.sent says whether the handler reached its request, fm.error *)
(* is the inline error it set ("" for null).                               *)
(***************************************************************************)
\* password.length < 8
MinPassword == 8

\* the texts of at most n characters over an alphabet
Texts(alphabet, n) == UNION {[1..k -> alphabet] : k \in 0..n}

\* String.prototype.trim
trim(s) ==
    LET ns == {k \in 1..Len(s) : s[k] # " "}
    IN IF ns = {} THEN <<>>
       ELSE SubSeq(s, CHOOSE a \in ns : \A k \in ns : a <= k,
                      CHOOSE b \in ns : \A k \in ns : b >= k)

\* s[a..b] matches [^\s@]+
Plain(s, a, b) == a <= b /\ \A k \in a..b : s[k] \notin {" ", "@"}

\* /^[^\s@]+@[^\s@]+\.[^\s@]+$/.test(s)
EmailTest(s) ==
    \E i, j \in 1..Len(s) :
        /\ i < j
        /\ s[i] = "@"
        /\ s[j] = "."
        /\ Plain(s, 1, i - 1)
        /\ Plain(s, i + 1, j - 1)
        /\ Plain(s, j + 1, Len(s))

\* a validateCreate that accepts a password of MinPassword - 1 characters
validateCreateShort(name, email, password, selectedRole) ==
    CASE trim(name) = <<>> -> "Name is required"
      [] trim(email) = <<>> -> "Email is required"
      [] ~EmailTest(trim(email)) -> "Enter a valid email"
      [] password = 0 \/ password < MinPassword - 1 ->
             "Password must be at least 8 characters"
      [] selectedRole = "" -> "Role is required"
      [] OTHER -> ""

\* CreateAdmin.validateCreate; password is the length of the password, ""
\* is null
validateCreate(name, email, password, selectedRole) ==
    CASE trim(name) = <<>> -> "Name is required"
      [] trim(email) = <<>> -> "Email is required"
      [] ~EmailTest(trim(email)) -> "Enter a valid email"
      [] password = 0 \/ password < MinPassword ->
             "Password must be at least 8 characters"
      [] selectedRole = "" -> "Role is required"
      [] OTHER -> ""

Digits == {"0", "1", "5"}

DigitValue(c) == CASE c = "0" -> 0 [] c = "1" -> 1 [] OTHER -> 5

RECURSIVE Decimal(_)
Decimal(ds) ==
    IF ds = <<>> THEN 0
    ELSE 10 * Decimal(SubSeq(ds, 1, Len(ds) - 1)) + DigitValue(ds[Len(ds)])

\* parseFloat on texts of digits, "-" and a letter: an optional sign, then
\* the longest run of digits; NaN when that run is empty
parseFloat(s) ==
    LET neg == Len(s) > 0 /\ s[1] = "-"
        body == IF neg THEN SubSeq(s, 2, Len(s)) ELSE s
        stops == {k \in 1..Len(body) : body[k] \notin Digits}
        n == IF stops = {} THEN Len(body)
             ELSE (CHOOSE k \in stops : \A m \in stops : k <= m) - 1
        v == Decimal(SubSeq(body, 1, n))
    IN [isNaN |-> n = 0, value |-> IF neg THEN 0 - v ELSE v]

\* the forms as a user fills them in
Forms ==
    [form : {"CreateAdmin"}, name : Texts({" ", "a"}, 2),
     email : Texts({" ", "a", "@", "."}, MaxEmail), password : {0, 7, 8, 9},
     selectedRole : {"", "account"}]
    \cup [form : {"ApproveAffiliate"}, percentage : Texts(Digits \cup {"-", "x"}, MaxPercent)]
    \cup [form : {"Login"}, email : Texts({" ", "a"}, 1), pwd : Texts({" ", "a"}, 1)]

\* the inline error the handler sets before it sends anything, "" if none
ClientError(f) ==
    CASE f.form = "CreateAdmin" ->
             validateCreate(f.name, f.email, f.password, f.selectedRole)
      [] f.form = "ApproveAffiliate" ->
             LET percentageNum == parseFloat(f.percentage)
             IN IF percentageNum.isNaN \/ percentageNum.value <= 0
                   \/ percentageNum.value > 100
                THEN "Please enter a valid percentage between 1 and 100"
                ELSE ""
      [] OTHER ->
             IF f.email = <<>> \/ f.pwd = <<>> THEN "Email and password required."
             ELSE ""

FmIdle == fm = [form |-> "none"]

FmInit ==
    \E f \in Forms : fm = [input |-> f, submitted |-> FALSE, sent |-> FALSE, error |-> ""]

\* onCreate, handleApproveAffiliate, handleSubmit up to the request
FmSubmit ==
    /\ ~fm.submitted
    /\ fm' = [fm EXCEPT !.submitted = TRUE,
                        !.error = ClientError(fm.input),
                        !.sent = ClientError(fm.input) = ""]

(***************************************************************************)
(* The specifications.                                                     *)
(***************************************************************************)
Next ==
    \/ Link /\ UNCHANGED <<pgVars, dbVars, lp, seVars, po, hd, ia, sb, mu, fm>>
    \/ Open /\ UNCHANGED <<pgVars, dbVars, lp, seVars, po, hd, ia, sb, mu, fm>>
    \/ LoginOk /\ UNCHANGED <<pgVars, dbVars, lp, seVars, po, hd, ia, sb, mu, fm>>
    \/ Logout /\ UNCHANGED <<pgVars, dbVars, lp, seVars, po, hd, ia, sb, mu, fm>>
    \/ Act /\ UNCHANGED <<pgVars, dbVars, lp, seVars, po, hd, ia, sb, mu, fm>>
    \/ Respond /\ UNCHANGED <<pgVars, dbVars, lp, seVars, po, hd, ia, sb, mu, fm>>
    \/ NetFail /\ UNCHANGED <<pgVars, dbVars, lp, seVars, po, hd, ia, sb, mu, fm>>

Init == AppInit /\ PgIdle /\ DbIdle /\ ListIdle /\ SeIdle /\ PoIdle /\ HdIdle /\ IaIdle /\ SbIdle /\ MuIdle /\ FmIdle

Spec == Init /\ [][Next]_vars

NextSession ==
    \/ SeLogin /\ UNCHANGED <<pgVars, dbVars, lp, appVars, po, hd, ia, sb, mu, fm>>
    \/ SeDestroy /\ UNCHANGED <<pgVars, dbVars, lp, appVars, po, hd, ia, sb, mu, fm>>
    \/ SeOpen /\ UNCHANGED <<pgVars, dbVars, lp, appVars, po, hd, ia, sb, mu, fm>>
    \/ SeRender /\ UNCHANGED <<pgVars, dbVars, lp, appVars, po, hd, ia, sb, mu, fm>>

InitSession == SeInit /\ PgIdle /\ DbIdle /\ ListIdle /\ AppIdle /\ PoIdle /\ HdIdle /\ IaIdle /\ SbIdle /\ MuIdle /\ FmIdle

SpecSession == InitSession /\ [][NextSession]_vars

NextPayout ==
    \/ PoOpenConfirmation /\ UNCHANGED <<pgVars, dbVars, lp, appVars, seVars, hd, ia, sb, mu, fm>>
    \/ PoCancel /\ UNCHANGED <<pgVars, dbVars, lp, appVars, seVars, hd, ia, sb, mu, fm>>
    \/ PoConfirm /\ UNCHANGED <<pgVars, dbVars, lp, appVars, seVars, hd, ia, sb, mu, fm>>
    \/ PoPatchDone /\ UNCHANGED <<pgVars, dbVars, lp, appVars, seVars, hd, ia, sb, mu, fm>>
    \/ PoType /\ UNCHANGED <<pgVars, dbVars, lp, appVars, seVars, hd, ia, sb, mu, fm>>
    \/ PoTimerFire /\ UNCHANGED <<pgVars, dbVars, lp, appVars, seVars, hd, ia, sb, mu, fm>>
    \/ PoFetchDone /\ UNCHANGED <<pgVars, dbVars, lp, appVars, seVars, hd, ia, sb, mu, fm>>

InitPayout == PoInit /\ PgIdle /\ DbIdle /\ ListIdle /\ AppIdle /\ SeIdle /\ HdIdle /\ IaIdle /\ SbIdle /\ MuIdle /\ FmIdle

SpecPayout == InitPayout /\ [][NextPayout]_vars

NextPager ==
    \/ RenderDataTable /\ UNCHANGED <<dbVars, lp, appVars, seVars, po, hd, ia, sb, mu, fm>>
    \/ RenderGroups /\ UNCHANGED <<dbVars, lp, appVars, seVars, po, hd, ia, sb, mu, fm>>
    \/ PgSetPage /\ UNCHANGED <<dbVars, lp, appVars, seVars, po, hd, ia, sb, mu, fm>>

InitPager == PgInit /\ DbIdle /\ ListIdle /\ AppIdle /\ SeIdle /\ PoIdle /\ HdIdle /\ IaIdle /\ SbIdle /\ MuIdle /\ FmIdle

SpecPager == InitPager /\ [][NextPager]_vars

NextList ==
    \/ LClickPage /\ UNCHANGED <<pgVars, dbVars, appVars, seVars, po, hd, ia, sb, mu, fm>>
    \/ LSetFilter /\ UNCHANGED <<pgVars, dbVars, appVars, seVars, po, hd, ia, sb, mu, fm>>
    \/ LType /\ UNCHANGED <<pgVars, dbVars, appVars, seVars, po, hd, ia, sb, mu, fm>>
    \/ LTimerFire /\ UNCHANGED <<pgVars, dbVars, appVars, seVars, po, hd, ia, sb, mu, fm>>
    \/ LHeaders /\ UNCHANGED <<pgVars, dbVars, appVars, seVars, po, hd, ia, sb, mu, fm>>
    \/ LBodyDone /\ UNCHANGED <<pgVars, dbVars, appVars, seVars, po, hd, ia, sb, mu, fm>>
    \/ LNetFail /\ UNCHANGED <<pgVars, dbVars, appVars, seVars, po, hd, ia, sb, mu, fm>>
    \/ LUnmount /\ UNCHANGED <<pgVars, dbVars, appVars, seVars, po, hd, ia, sb, mu, fm>>
    \/ LLate /\ UNCHANGED <<pgVars, dbVars, appVars, seVars, po, hd, ia, sb, mu, fm>>

InitList == ListInit /\ PgIdle /\ DbIdle /\ AppIdle /\ SeIdle /\ PoIdle /\ HdIdle /\ IaIdle /\ SbIdle /\ MuIdle /\ FmIdle

SpecList == InitList /\ [][NextList]_vars

NextDebounce ==
    \/ DbKeystroke /\ UNCHANGED <<pgVars, lp, appVars, seVars, po, hd, ia, sb, mu, fm>>
    \/ DbTimerFire /\ UNCHANGED <<pgVars, lp, appVars, seVars, po, hd, ia, sb, mu, fm>>
    \/ DbClick /\ UNCHANGED <<pgVars, lp, appVars, seVars, po, hd, ia, sb, mu, fm>>
    \/ DbRespond /\ UNCHANGED <<pgVars, lp, appVars, seVars, po, hd, ia, sb, mu, fm>>
    \/ DbTick /\ UNCHANGED <<pgVars, lp, appVars, seVars, po, hd, ia, sb, mu, fm>>
    \/ TblKeystroke /\ UNCHANGED <<pgVars, lp, appVars, seVars, po, hd, ia, sb, mu, fm>>
    \/ TblSetLoading /\ UNCHANGED <<pgVars, lp, appVars, seVars, po, hd, ia, sb, mu, fm>>

InitDebounce == DbInit /\ PgIdle /\ ListIdle /\ AppIdle /\ SeIdle /\ PoIdle /\ HdIdle /\ IaIdle /\ SbIdle /\ MuIdle /\ FmIdle

SpecDebounce == InitDebounce /\ [][NextDebounce]_vars

NextHeaders ==
    \/ HdFetch /\ UNCHANGED <<pgVars, dbVars, lp, appVars, seVars, po, ia, sb, mu, fm>>

InitHeaders == HdInit /\ PgIdle /\ DbIdle /\ ListIdle /\ AppIdle /\ SeIdle /\ PoIdle /\ IaIdle /\ SbIdle /\ MuIdle /\ FmIdle

SpecHeaders == InitHeaders /\ [][NextHeaders]_vars

NextInactivity ==
    \/ IaActivity /\ UNCHANGED <<pgVars, dbVars, lp, appVars, seVars, po, hd, sb, mu, fm>>
    \/ IaLink /\ UNCHANGED <<pgVars, dbVars, lp, appVars, seVars, po, hd, sb, mu, fm>>
    \/ IaSubmit /\ UNCHANGED <<pgVars, dbVars, lp, appVars, seVars, po, hd, sb, mu, fm>>
    \/ IaLoginDone /\ UNCHANGED <<pgVars, dbVars, lp, appVars, seVars, po, hd, sb, mu, fm>>
    \/ IaLogoutClick /\ UNCHANGED <<pgVars, dbVars, lp, appVars, seVars, po, hd, sb, mu, fm>>
    \/ IaFire /\ UNCHANGED <<pgVars, dbVars, lp, appVars, seVars, po, hd, sb, mu, fm>>
    \/ IaTick /\ UNCHANGED <<pgVars, dbVars, lp, appVars, seVars, po, hd, sb, mu, fm>>

InitInactivity == IaInit /\ PgIdle /\ DbIdle /\ ListIdle /\ AppIdle /\ SeIdle /\ PoIdle /\ HdIdle /\ SbIdle /\ MuIdle /\ FmIdle

SpecInactivity == InitInactivity /\ [][NextInactivity]_vars

NextSidebar ==
    \/ SbToggleSidebar /\ UNCHANGED <<pgVars, dbVars, lp, appVars, seVars, po, hd, ia, mu, fm>>
    \/ SbToggleReports /\ UNCHANGED <<pgVars, dbVars, lp, appVars, seVars, po, hd, ia, mu, fm>>
    \/ SbNavLink /\ UNCHANGED <<pgVars, dbVars, lp, appVars, seVars, po, hd, ia, mu, fm>>

InitSidebar == SbInit /\ PgIdle /\ DbIdle /\ ListIdle /\ AppIdle /\ SeIdle /\ PoIdle /\ HdIdle /\ IaIdle /\ MuIdle /\ FmIdle

SpecSidebar == InitSidebar /\ [][NextSidebar]_vars

NextHandlers ==
    \/ MuView /\ UNCHANGED <<pgVars, dbVars, lp, appVars, seVars, po, hd, ia, sb, fm>>
    \/ MuCloseModal /\ UNCHANGED <<pgVars, dbVars, lp, appVars, seVars, po, hd, ia, sb, fm>>
    \/ MuRowAction /\ UNCHANGED <<pgVars, dbVars, lp, appVars, seVars, po, hd, ia, sb, fm>>
    \/ MuModalStatus /\ UNCHANGED <<pgVars, dbVars, lp, appVars, seVars, po, hd, ia, sb, fm>>
    \/ MuToggle /\ UNCHANGED <<pgVars, dbVars, lp, appVars, seVars, po, hd, ia, sb, fm>>
    \/ MuRefresh /\ UNCHANGED <<pgVars, dbVars, lp, appVars, seVars, po, hd, ia, sb, fm>>
    \/ MuSettle /\ UNCHANGED <<pgVars, dbVars, lp, appVars, seVars, po, hd, ia, sb, fm>>

InitHandlers == MuInit /\ PgIdle /\ DbIdle /\ ListIdle /\ AppIdle /\ SeIdle /\ PoIdle /\ HdIdle /\ IaIdle /\ SbIdle /\ FmIdle

SpecHandlers == InitHandlers /\ [][NextHandlers]_vars

NextForms ==
    \/ FmSubmit /\ UNCHANGED <<pgVars, dbVars, lp, appVars, seVars, po, hd, ia, sb, mu>>

InitForms == FmInit /\ PgIdle /\ DbIdle /\ ListIdle /\ AppIdle /\ SeIdle /\ PoIdle /\ HdIdle /\ IaIdle /\ SbIdle /\ MuIdle

SpecForms == InitForms /\ [][NextForms]_vars

(***************************************************************************)
(* Properties of the page-number renderer.                                 *)
(***************************************************************************)
Rendered == pgWhich # "none"

InRange == pgCurrent >= 1 /\ pgCurrent <= pgTotal

\* C7: for every totalPages <= 7 and every currentPage the rendered list is
\* exactly 1, 2, .., totalPages, with no ellipsis.
C7_SmallListsAllPages ==
    (Rendered /\ pgTotal <= 7) =>
        /\ Len(pgOut) = pgTotal
        /\ \A i \in 1..Len(pgOut) : pgOut[i] = i

C7_Witness ==
    /\ Rendered
    /\ pgTotal = 7
    /\ pgCurrent = 4
    /\ pgOut = <<1, 2, 3, 4, 5, 6, 7>>

\* C8 as stated: for totalPages = 20 and currentPage = 1 the rendered list
\* is 1, 2, 3, "...", 20.
C8_Original ==
    (Rendered /\ pgTotal = 20 /\ pgCurrent = 1) =>
        pgOut = <<1, 2, 3, Ellipsis, 20>>

\* C8 amended: for totalPages = 20 and currentPage = 1 the rendered list is
\* 1, 2, "...", 20: the window around page 1 ends at page 2, and there is no
\* leading ellipsis.
C8_FirstPage ==
    (Rendered /\ pgTotal = 20 /\ pgCurrent = 1) =>
        pgOut = <<1, 2, Ellipsis, 20>>

C8_Witness ==
    /\ Rendered
    /\ pgTotal = 20
    /\ pgCurrent = 1
    /\ Len(pgOut) = 4

\* C9: for totalPages = 20 and currentPage = 10 the rendered list is
\* 1, "...", 9, 10, 11, "...", 20.
C9_MiddlePage ==
    (Rendered /\ pgTotal = 20 /\ pgCurrent = 10) =>
        pgOut = <<1, Ellipsis, 9, 10, 11, Ellipsis, 20>>

C9_Witness ==
    /\ Rendered
    /\ pgTotal = 20
    /\ pgCurrent = 10
    /\ Len(pgOut) = 7

\* C10: for every totalPages > 7 and every currentPage in 1..totalPages the
\* rendered list has at most 7 entries, starts with 1, ends with totalPages,
\* lists its page numbers in strictly increasing order, contains currentPage
\* and each neighbour of it that is a page, and has an ellipsis exactly
\* where page numbers are left out: between two listed pages that are not
\* consecutive there is one ellipsis, and an ellipsis always stands between
\* two listed pages that are not consecutive.
C10_CompressedShape ==
    (Rendered /\ pgTotal > 7 /\ InRange) =>
        /\ Len(pgOut) <= 7
        /\ pgOut[1] = 1
        /\ pgOut[Len(pgOut)] = pgTotal
        /\ \A i, j \in 1..Len(pgOut) :
              (i < j /\ pgOut[i] # Ellipsis /\ pgOut[j] # Ellipsis)
                  => pgOut[i] < pgOut[j]
        /\ \A p \in {pgCurrent - 1, pgCurrent, pgCurrent + 1} :
              (p >= 1 /\ p <= pgTotal) => p \in PagesOf(pgOut)
        /\ \A i \in 1..(Len(pgOut) - 1) :
              /\ (pgOut[i] # Ellipsis /\ pgOut[i + 1] # Ellipsis)
                    => pgOut[i + 1] = pgOut[i] + 1
              /\ pgOut[i] = Ellipsis
                    => /\ i > 1
                       /\ pgOut[i - 1] # Ellipsis
                       /\ pgOut[i + 1] # Ellipsis
                       /\ pgOut[i + 1] > pgOut[i - 1] + 1

C10_Witness ==
    /\ Rendered
    /\ pgTotal = 8
    /\ pgCurrent = 4
    /\ pgOut = <<1, Ellipsis, 3, 4, 5, Ellipsis, 8>>

(***************************************************************************)
(* Properties of the search box.                                           *)
(***************************************************************************)
\* the requests issued at or after time t0, the mount request aside
IssuedSince(t0) ==
    {i \in DOMAIN dbIssued : dbIssued[i].cause # "mount" /\ dbIssued[i].t >= t0}

\* C5: three keystrokes 100 ms apart (at t0, t0 + 100 ms, t0 + 200 ms, with
\* no page click since t0 and a final text that differs from the text last
\* searched for) lead to exactly one request, issued 500 ms after the last
\* keystroke and carrying the final text.
C5_Original ==
    \A t0 \in 0..MaxTime :
        ( /\ dbHost \in DbHosts
          /\ dbKeys = <<t0, t0 + 1, t0 + 2>>
          /\ dbSearchQuery # ""
          /\ dbNow >= t0 + 2 + DebounceDelay
          /\ dbTimer = NoTimer
          /\ \A i \in IssuedSince(t0) : dbIssued[i].cause # "click" )
        => /\ Cardinality(IssuedSince(t0)) = 1
           /\ \A i \in IssuedSince(t0) :
                 /\ dbIssued[i].t = t0 + 2 + DebounceDelay
                 /\ dbIssued[i].search = dbSearchQuery

\* C6: with onSearch supplied, the DataTable debounces: two calls of
\* onSearch are never less than the debounce window apart, so a burst of
\* keystrokes inside the window makes one call, not one per keystroke.
C6_Original ==
    (dbHost = "DataTable" /\ dbOnSearch) =>
        \A i \in 1..(Len(dbCalls) - 1) :
            dbCalls[i + 1].t - dbCalls[i].t >= DebounceDelay

(***************************************************************************)
(* Properties of the list pages.                                           *)
(***************************************************************************)
\* C3: on Transactions, PayoutRequests and Groups a request that was
\* replaced by a later one before it resolved is gone: it is no longer in
\* flight, so it can resolve in no order at all, and the data shown is never
\* its result.
C3_SupersededNeverWrites ==
    lp.kind \in EffectDriven =>
        \A s \in lp.superseded :
            /\ lp.data.req # s.id
            /\ \A r \in lp.reqs : r.id # s.id

\* request A for page 1 was replaced by request B for page 2 while in
\* flight, and B's result is what is shown
C3_Witness ==
    /\ lp.kind \in EffectDriven
    /\ \E s \in lp.superseded :
          /\ s.page = 1
          /\ lp.data.req = s.id + 1
          /\ lp.data.currentPage = 2
    /\ lp.reqs = {}

\* C4: on the Users page a request that is still in flight when the page
\* number or the debounced search changes is aborted, and its late response
\* does not overwrite what a newer request has stored: the data shown never
\* goes back from the response to a request to the response to one issued
\* before it.
C4_Original ==
    [][ (lp.kind = "Users" /\ lp.data # NoData /\ lp'.data # lp.data)
            => lp'.data.req > lp.data.req ]_vars

\* C20: while a list request is in flight on Transactions, PayoutRequests
\* or Groups the page is loading; in particular loading stays true from
\* the moment request B replaces the aborted request A until B settles.
C20_Original ==
    (lp.kind \in EffectDriven /\ lp.mounted /\ lp.reqs # {}) => lp.loading

\* C21: once a list page is loaded its page number is within
\* [1, totalPages]: whenever a response is stored, the page that was
\* requested and the page shown as current are at least 1 and at most the
\* number of pages the collection has under the filters of the request.
C21_Original ==
    [][ (lp.kind \in ListKinds /\ lp'.data # lp.data) =>
            \A r \in lp.reqs :
                r.id = lp'.data.req =>
                    /\ r.page >= 1
                    /\ r.page <= lp'.data.totalPages
                    /\ CurrentPage(lp') >= 1
                    /\ CurrentPage(lp') <= TotalPages(lp') ]_vars

\* C23: on Transactions, PayoutRequests and Groups a cancelled request never
\* fills the error banner: when a request is aborted because a later run of
\* the fetch effect replaced it, err stays as that run cleared it, and when
\* the page unmounts err is not touched; a request that fails without being
\* aborted, or whose response is not 2xx, sets err.
C23_Original ==
    [][ lp.kind \in EffectDriven =>
          /\ (lp'.mounted /\ lp'.superseded # lp.superseded) => lp'.err = ""
          /\ (lp.mounted /\ ~lp'.mounted) => lp'.err = lp.err
          /\ \A r \in lp.reqs :
                ( /\ lp.mounted
                  /\ lp'.superseded = lp.superseded
                  /\ lp'.reqs = lp.reqs \ {r}
                  /\ (r.phase = "sent" \/ ~r.ok) ) => lp'.err = "failed" ]_vars

(***************************************************************************)
(* Properties of the transport layer.                                      *)
(***************************************************************************)
\* a request settled in this step
Settled == last' # last

Redirected == pathname' = LoginPath /\ locationSearch' = Expired

Destroyed == localStore' = Absent /\ sessionStore' = Absent

C2_Original ==
    [][ (Settled /\ last'.auth /\ last'.status \in AuthFailure) =>
            Destroyed /\ IncludesLogin(pathname') ]_vars

\* C15: an unparsable stored item counts as no session: with such an item
\* in storage, asking for a protected route ends at the Login form, not at
\* a page of the application and not at the not-found page.
C15_Original ==
    (wanted # NoFrom /\ RawItem(localStore, sessionStore) = Garbage) =>
        PageAt(pathname) = "RootLogin"

\* C18: asking for a protected path P without a token ends at the login
\* entry with P kept in the location state, for the route guard and for the
\* pages that redirect themselves; the next successful login goes to the
\* path that was kept, and to /dashboard when none was.
C18_Original ==
    [][ /\ wanted' # NoFrom =>
              (PageAt(pathname') = "RootLogin" /\ navFrom' = wanted')
        /\ (getAuthToken(localStore, sessionStore) = ""
              /\ getAuthToken(localStore', sessionStore') # "") =>
              pathname' = IF navFrom # NoFrom THEN navFrom ELSE DashboardPath
      ]_vars

\* C19: after apiFetch has handled a 401 or 403 the tab is at the login
\* page, which the expiry marker tells apart from a plain redirect.
C19_Original ==
    locationSearch = Expired => PageAt(pathname) = "RootLogin"

(***************************************************************************)
(* Properties of the stored session and of what the roles see.             *)
(***************************************************************************)
\* C11: when a session whose role is "front_desk" loads the Users page, the
\* table is rendered without the Type, Verified and Joined columns, the
\* row actions do not include "Suspend", and the limited-access banner is
\* shown.
C11_Original ==
    (seView.page = "Users" /\ seView.role = "front_desk") =>
        /\ ~seView.view.denied
        /\ \A i \in 1..Len(seView.view.columns) :
              seView.view.columns[i] \notin {"Type", "Verified", "Joined"}
        /\ Len(seView.view.columns) > 0
        /\ "Suspend" \notin seView.view.actions
        /\ seView.view.banner

\* the two storage scopes as the tab of the latest operation sees them
Scopes == [local |-> seLocal, session |-> seTab[seLast.tab]]

\* C13: after the session is destroyed -- by the layout's logout, by the
\* inactivity logout or by apiFetch -- whatever the two scopes held before,
\* resolving the session yields no item, no token and no role at any call
\* site, and destroying once more gives the same state.
C13_DestructionComplete ==
    seLast.op = "destroy" =>
        /\ Scopes = destroySession(seLast.before)
        /\ RawItem(Scopes.local, Scopes.session) = Absent
        /\ ~isAuthed(Scopes.local, Scopes.session)
        /\ \A site \in CallSites :
              Resolve(site, Scopes.local, Scopes.session)
                  = [threw |-> FALSE, token |-> "", role |-> ""]
        /\ destroySession(Scopes) = Scopes

\* the inactivity logout ran in a tab that held a session in localStorage
\* and an unparsable item in sessionStorage
C13_Witness ==
    /\ seLast.op = "destroy"
    /\ seLast.via = "logout"
    /\ seLast.before.local.raw = "json"
    /\ seLast.before.session = Garbage
    /\ seLocal = Absent
    /\ seTab[seLast.tab] = Absent

\* C14: resolving the session never throws: at every call site, UserDetails
\* included, a page that mounts over an absent or unparsable stored item
\* gets no token and no role, not an exception.
C14_Original ==
    (seView.page # ""
        /\ RawItem(seLocal, seTab[seView.tab]) \in {Absent, Garbage}) =>
            /\ ~seView.threw
            /\ seView.role = ""

\* C16: when the login response carries no role, the session that login
\* creates has no role.
C16_Original ==
    (seLast.op = "login" /\ seLast.respRole = "") =>
        seMine[seLast.tab].role = ""

\* C17: login writes the session to one scope and leaves none in the
\* other: in every tab at most one of the two scopes holds a session, and
\* a tab that has created a session resolves that one.
C17_Original ==
    \A t \in Tabs :
        /\ ~(seLocal.raw = "json" /\ seTab[t].raw = "json")
        /\ (seMine[t] # Absent /\ RawItem(seLocal, seTab[t]).raw = "json") =>
              RawItem(seLocal, seTab[t]) = seMine[t]

(***************************************************************************)
(* Properties of the payout approval.                                      *)
(***************************************************************************)
\* the row whose status the server changed in this step
Patched == CHOOSE r \in RowIds : po'.srv[r] # po.srv[r]

\* C12: approving a pending payout request as admin sends one PATCH with
\* {id, status: "completed"}, no second one can start while it is in
\* flight, and on success the row with that id gets the new status in the
\* in-memory list, every other row stays as it is, and no list request is
\* issued.
C12_Original ==
    [][ po.role = "admin" =>
          /\ Cardinality(po'.patches) <= 1
          /\ (po'.patches # po.patches /\ po'.patches # {}) =>
                \E p \in po'.patches :
                    /\ p.id = po.confirmAction.id
                    /\ p.status = po.confirmAction.status
          /\ (po'.srv # po.srv /\ po'.srv[Patched] = "completed") =>
                /\ po.srv[Patched] = "pending"
                /\ po'.data = [po.data EXCEPT
                                 !.rows = PatchRows(po.data.rows, Patched, "completed")]
                /\ po'.reqs = po.reqs ]_vars

(***************************************************************************)
(* Properties of the request apiFetch builds.                              *)
(***************************************************************************)
\* the values the caller gave for a header, in the order given
Given(n) ==
    LET es == SelectSeq(hd.init.headers, LAMBDA e : Lower(e.name) = n)
    IN [i \in 1..Len(es) |-> es[i].value]

\* the header as the config carries it, <<>> when it is absent
Sent(n) ==
    IF n \in DOMAIN hd.config.headers THEN hd.config.headers[n] ELSE <<>>

\* C22: a request made through apiFetch carries Authorization: Bearer
\* <token> whenever a token resolves from storage, in place of any
\* Authorization header of the caller; it carries Accept: application/json
\* unless the caller supplied an Accept header, which is kept; method, body,
\* signal and the other headers are the caller's.
C22_HeadersBuilt ==
    hd.called =>
        LET token == getAuthToken(hd.ls, hd.ss)
        IN /\ Sent("authorization") =
                 IF token # "" THEN <<"Bearer " \o token>> ELSE Given("authorization")
           /\ Sent("accept") =
                 IF Given("accept") # <<>> THEN Given("accept")
                 ELSE <<"application/json">>
           /\ Sent("x-request-id") = Given("x-request-id")
           /\ hd.config.method = hd.init.method
           /\ hd.config.body = hd.init.body
           /\ hd.config.signal = hd.init.signal

\* a caller that supplied its own Authorization and its own Accept while a
\* session is stored: the first is replaced, the second kept
C22_Witness ==
    /\ hd.called
    /\ getAuthToken(hd.ls, hd.ss) = "tok"
    /\ Given("authorization") = <<"Bearer own">>
    /\ Given("accept") = <<"text/csv">>
    /\ Sent("authorization") = <<"Bearer tok">>
    /\ Sent("accept") = <<"text/csv">>

(***************************************************************************)
(* Properties of the inactivity timer.                                     *)
(***************************************************************************)
\* a session exists and the route is not "/"
Watched == isAuthed(ia.ls, ia.ss) /\ ia.path # Root

\* the times at which the pending timeouts are due
Dues == {t.due : t \in ia.timers}

\* the timeout that fired was due, and it left no stored item and the route "/"
FiredClean ==
    ia.last.op = "fire" =>
        /\ ia.last.at = ia.last.due
        /\ ia.now = ia.last.at => (ia.ls = Absent /\ ia.ss = Absent /\ ia.path = Root)

\* C24 as stated: while a session exists and the route is not "/", the
\* one pending timer is due INACTIVITY_TIMEOUT after the last activity
\* event, it destroys the session in both scopes and navigates to "/" then
\* and not earlier, and no second timer is ever pending.
C24_Original ==
    /\ Cardinality(ia.timers) <= 1
    /\ (Watched /\ ia.lastEvent >= 0) => Dues = {ia.lastEvent + INACTIVITY_TIMEOUT}
    /\ FiredClean

\* C24: while a session exists and the route is not "/", exactly one timer
\* is pending, due INACTIVITY_TIMEOUT after the later of the last activity
\* event and the last change of route (the navigation that follows a login
\* is one); otherwise none is pending.  That timer destroys the session in
\* both scopes and navigates to "/" when it is due and not earlier.
C24_InactivityLogout ==
    /\ Cardinality(ia.timers) <= 1
    /\ Dues = IF Watched
              THEN {Max(ia.lastEvent, ia.lastRoute) + INACTIVITY_TIMEOUT}
              ELSE {}
    /\ Watched => ia.now <= Max(ia.lastEvent, ia.lastRoute) + INACTIVITY_TIMEOUT
    /\ FiredClean

\* the timer has just fired, a full period after an activity event that
\* came some time into the session
C24_Witness ==
    /\ ia.last.op = "fire"
    /\ ia.now = ia.last.at
    /\ ia.lastEvent > 0
    /\ ia.last.at = ia.lastEvent + INACTIVITY_TIMEOUT
    /\ ia.path = Root
    /\ ~isAuthed(ia.ls, ia.ss)

(***************************************************************************)
(* Properties of the payout capabilities.                                  *)
(***************************************************************************)
\* C25: on PayoutRequests a PATCH to the status endpoint is in flight, and
\* the confirmation dialog is open, only for the roles admin and account;
\* for customer_support, front_desk, marketing and no role the dialog never
\* opens and no PATCH is sent.
C25_UpdateGated ==
    (po.confirmAction # NoAction \/ po.patches # {} \/ po.updatingId # "") =>
        po.role \in {"admin", "account"}

\* an account user has confirmed and the PATCH is in flight
C25_Witness ==
    /\ po.role = "account"
    /\ po.patches # {}
    /\ po.updatingId # ""

(***************************************************************************)
(* Properties of the sidebar.                                              *)
(***************************************************************************)
\* the name the allow-lists use for a session role
RoleLabel(role) ==
    CASE role = "admin" -> "Admin"
      [] role = "account" -> "Account"
      [] role = "front_desk" -> "Front Desk"
      [] role = "customer_support" -> "Customer Support"
      [] role = "marketing" -> "Marketing"
      [] OTHER -> ""

\* C26: the sidebar shows an item of the main and support groups if and
\* only if the item's allow-list contains the role of the session: "Create
\* Admin" only for the administrator, "Affiliates" only for administrator
\* and account.
C26_Original ==
    \A i \in mainItems \cup supportItems :
        i \in sb.shown <=> RoleLabel(sb.role) \in i.roles

(***************************************************************************)
(* Properties of the handlers of Support, Resources and CreateAdmin.       *)
(***************************************************************************)
\* C27: a support-ticket status update, an admin-list refresh or a
\* resource status update that gets a non-2xx response or fails is not
\* swallowed: the page's visible error is set.
C27_Original ==
    ( /\ mu.last.op \in {"Support.handleUpdateStatus", "CreateAdmin.refreshAdmins",
                         "Resources.handleUpdateStatus"}
      /\ mu.last.outcome \in {"non2xx", "threw"}
      /\ mu.asked = NoCall ) => mu.err # ""

\* C28: on Support, "Mark as Resolved" or "Mark as Closed" chosen from the
\* action menu of row r sends the status update for r's ticket, whichever
\* ticket, if any, is open in the details modal.
C28_Original ==
    (mu.page = "Support" /\ mu.asked.op = "row") =>
        \E c \in mu.calls : c.id = mu.asked.id /\ c.value = mu.asked.value

(***************************************************************************)
(* Properties of the forms.                                                *)
(***************************************************************************)
\* how often a character occurs in a text
Count(s, c) == Cardinality({k \in 1..Len(s) : s[k] = c})

\* an address local@domain: one "@", no blank, something before the "@",
\* and after it a "." with something on both sides
WellFormed(s) ==
    /\ Count(s, "@") = 1
    /\ Count(s, " ") = 0
    /\ LET at == CHOOSE k \in 1..Len(s) : s[k] = "@"
       IN /\ at > 1
          /\ \E j \in (at + 2)..(Len(s) - 1) : s[j] = "."

\* what the forms require of an input
Acceptable(f) ==
    CASE f.form = "CreateAdmin" ->
             /\ f.name # <<>>
             /\ f.email # <<>>
             /\ WellFormed(trim(f.email))
             /\ f.password >= 8
             /\ f.selectedRole # ""
      [] f.form = "ApproveAffiliate" ->
             /\ ~parseFloat(f.percentage).isNaN
             /\ parseFloat(f.percentage).value > 0
             /\ parseFloat(f.percentage).value <= 100
      [] OTHER -> f.email # <<>> /\ f.pwd # <<>>

\* C29: a form that fails its client-side check never reaches the
\* network: the create-admin request needs a name, a well-formed email, a
\* password of at least 8 characters and a role; the approve-affiliate
\* request needs a percentage that parses to a number in (0, 100]; the login
\* request needs an email and a password.  A failing submit sets an inline
\* error and sends nothing.
C29_ValidationGates ==
    fm.submitted =>
        /\ fm.sent => Acceptable(fm.input)
        /\ ~Acceptable(fm.input) => (~fm.sent /\ fm.error # "")

\* a create-admin form with a 7-character password was submitted: error
\* set, nothing sent
C29_Witness ==
    /\ fm.submitted
    /\ fm.input.form = "CreateAdmin"
    /\ fm.input.password = 7
    /\ WellFormed(fm.input.email)
    /\ fm.input.name = <<"a">>
    /\ fm.input.selectedRole = "account"
    /\ ~fm.sent
    /\ fm.error = "Password must be at least 8 characters"

(***************************************************************************)
(* Properties of the payout list after a status update.                    *)
(***************************************************************************)
\* C30: a successful payout status update never takes the list back to
\* older data: when the PATCH succeeds, the list shown is the newest list
\* loaded, with the status of the updated row replaced, even if a list
\* request has completed while the PATCH was in flight.
C30_Original ==
    [][ (po.role \in PayoutRoles /\ po'.srv # po.srv /\ po.data.loaded) =>
            po'.data = [po.data EXCEPT
                          !.rows = PatchRows(po.data.rows, Patched, po'.srv[Patched])]
      ]_vars

====
